---- MODULE Spec2Model ----
(***************************************************************************)
(* verdaccio-security-filter: the fast-path check (_checkPackageBlock),   *)
(* the request middleware (register_middlewares) and the metadata filter  *)
(* (filter_metadata) of SecurityFilterPlugin, with the checkers they use. *)
(*                                                                         *)
(* Strings the code parses (package names, version ids, tarball file      *)
(* names, block-list keys) are sequences of one-character strings.        *)
(* Regular expressions and semver ranges from the configuration are       *)
(* library objects: each is a record holding whether it compiles and the  *)
(* set of strings it accepts.                                              *)
(***************************************************************************)
EXTENDS Integers, Sequences, FiniteSets, TLC

VARIABLES config, securityRules, whitelist, licenseChecker, mw, fm, licenseCall,
          wlTrace, metrics, cache

vars == <<config, securityRules, whitelist, licenseChecker, mw, fm, licenseCall,
          wlTrace, metrics, cache>>

(***************************************************************************)
(* Bounds                                                                  *)
(***************************************************************************)
MaxRules == 2
MaxPatterns == 1
\* the number of mutations of the whitelist a run follows
MaxCalls == 3
\* the number of versions of the largest document
MaxVersions == 11
\* the number of events a run records
MaxEvents == 101
\* the largest capacity an LRUCache is built with
MaxSize == 2

(***************************************************************************)
(* Strings                                                                 *)
(***************************************************************************)
NameA == <<"a">>
NameA2 == <<"a", "-", "2">>
NameSB == <<"@", "s", "/", "b">>
Names == {NameA, NameA2, NameSB}

V100 == <<"1", ".", "0", ".", "0">>
V110 == <<"1", ".", "1", ".", "0">>
V100B == <<"1", ".", "0", ".", "0", "+", "b">>
ReqVersions == {V100, V110, V100B}

RECURSIVE Decimal(_)
Decimal(k) ==
    LET DigitChars == <<"0", "1", "2", "3", "4", "5", "6", "7", "8", "9">>
    IN
    IF k < 10 THEN <<DigitChars[k + 1]>>
    ELSE Decimal(k \div 10) \o <<DigitChars[(k % 10) + 1]>>

\* the version ids 2.1.0, 2.2.0, ... of a document with n versions
ManyVersions(n) == [k \in 1..n |-> <<"2", ".">> \o Decimal(k) \o <<".", "0">>]

ScopeS == <<"@", "s">>

Undefined == <<>>

DigitDot ==
    LET Digits == {"0", "1", "2", "3", "4", "5", "6", "7", "8", "9"}
    IN Digits \cup {"."}

AllIn(s, S) == \A i \in 1..Len(s) : s[i] \in S

IndexOf(s, c) ==
    IF \E i \in 1..Len(s) : s[i] = c
    THEN CHOOSE i \in 1..Len(s) : s[i] = c /\ \A j \in 1..(i - 1) : s[j] # c
    ELSE 0

\* packageName.startsWith('@')
StartsWithAt(s) == Len(s) > 0 /\ s[1] = "@"

\* packageName.split('/')[0]
SplitSlashHead(s) ==
    IF IndexOf(s, "/") = 0 THEN s ELSE SubSeq(s, 1, IndexOf(s, "/") - 1)

\* the file-name base npm gives a package: the part after the scope
BaseName(s) ==
    IF IndexOf(s, "/") = 0 THEN s ELSE SubSeq(s, IndexOf(s, "/") + 1, Len(s))

(***************************************************************************)
(* Library objects: regular expressions and semver ranges                  *)
(***************************************************************************)
\* new RegExp(pattern) throws iff ~valid; regex.test(name) iff name \in lang
ReBad == [src |-> "(", valid |-> FALSE, lang |-> {}]
ReA2 == [src |-> "^a-", valid |-> TRUE, lang |-> {NameA2}]
ReSB == [src |-> "^@s/", valid |-> TRUE, lang |-> {NameSB}]
ReAll == [src |-> ".", valid |-> TRUE, lang |-> Names]

\* semver.validRange(range) is non-null iff valid;
\* semver.satisfies(version, range) iff version \in sat
RangeLow == [src |-> "<1.1.0", valid |-> TRUE, sat |-> {V100}]
RangeAny == [src |-> "*", valid |-> TRUE, sat |-> {V100, V110, V100B}]
RangeHigh == [src |-> ">=1.1.0", valid |-> TRUE, sat |-> {V110}]
RangeNone == [src |-> "", valid |-> FALSE, sat |-> {}]

satisfies(version, range) == version \in range.sat

(***************************************************************************)
(* Sequence helpers                                                        *)
(***************************************************************************)
SeqsUpTo(S, n) == UNION {[1..k -> S] : k \in 0..n}

Includes(seq, x) == \E i \in 1..Len(seq) : seq[i] = x

Range(seq) == {seq[i] : i \in 1..Len(seq)}

Restrict(f, S) == [x \in S |-> f[x]]

\* Array.prototype.find / some with a callback that may throw: the index of
\* the first element on which the scan stops, 0 when it runs to the end
FirstIndex(seq, Stop(_)) ==
    IF \E i \in 1..Len(seq) : Stop(seq[i])
    THEN CHOOSE i \in 1..Len(seq) : Stop(seq[i]) /\ \A j \in 1..(i - 1) : ~Stop(seq[j])
    ELSE 0

(***************************************************************************)
(* Constructor: configuration defaults and the rule store                  *)
(***************************************************************************)
\* errorHandling is absent (NoErrorHandling) or a record whose fields are a
\* strategy or Unset
NoErrorHandling == [present |-> FALSE, onFilterError |-> "unset", onCveCheckError |-> "unset"]

\* variant: the range of an entry is not validated
_parseVersionRangeRulesAnyRange(rules) ==
    LET Keep(rule) ==
            /\ ~(rule.package = <<>> \/ rule.range.src = "" \/ rule.strategy = "")
            /\ ~(rule.strategy = "fallback" /\ rule.fallbackVersion = <<>>)
    IN SelectSeq(rules, Keep)

_parseVersionRangeRules(rules) ==
    LET Keep(rule) ==
            /\ ~(rule.package = <<>> \/ rule.range.src = "" \/ rule.strategy = "")
            /\ ~(rule.strategy = "fallback" /\ rule.fallbackVersion = <<>>)
            /\ rule.range.valid
    IN SelectSeq(rules, Keep)

ConstructorConfig(raw) ==
    IF raw.errorHandling.present
    THEN raw
    ELSE [raw EXCEPT !.errorHandling =
             [present |-> TRUE, onFilterError |-> "fail-open", onCveCheckError |-> "fail-open"]]

ConstructorRules(raw) ==
    [blockedVersions |-> raw.blockedVersions,
     blockedPatterns |-> raw.blockedPatterns,
     allowedScopes |-> raw.allowedScopes,
     blockedScopes |-> raw.blockedScopes,
     versionRangeRules |-> _parseVersionRangeRules(raw.versionRangeRules)]

WhitelistCheckerInit(raw) ==
    [packages |-> raw.whitelist.packages,
     patterns |-> raw.whitelist.patterns,
     versions |-> raw.whitelist.versions]

(***************************************************************************)
(* WhitelistChecker                                                        *)
(***************************************************************************)
\* an invalid pattern is caught and counts as no match
matchesPattern(wl, packageName) ==
    \E i \in 1..Len(wl.patterns) :
        wl.patterns[i].valid /\ packageName \in wl.patterns[i].lang

isWhitelisted(wl, packageName, version) ==
    IF Includes(wl.packages, packageName)
    THEN IF /\ version # Undefined
            /\ packageName \in DOMAIN wl.versions
            /\ ~satisfies(version, wl.versions[packageName])
         THEN [allowed |-> FALSE, reason |-> "Version does not satisfy whitelist constraint"]
         ELSE [allowed |-> TRUE, reason |-> ""]
    ELSE IF matchesPattern(wl, packageName)
         THEN [allowed |-> TRUE, reason |-> ""]
         ELSE [allowed |-> FALSE, reason |-> "Package is not in whitelist"]

\* a versionRange argument that is undefined or '' is falsy
RangeGiven(versionRange) == versionRange.src # ""

addPackage(wl, packageName, versionRange) ==
    [wl EXCEPT
        !.packages = IF Includes(@, packageName) THEN @ ELSE Append(@, packageName),
        !.versions = IF RangeGiven(versionRange)
                     THEN (packageName :> versionRange) @@ @ ELSE @]

\* indexOf finds the first occurrence, splice(index, 1) removes that one
removePackage(wl, packageName) ==
    LET index == IndexOf(wl.packages, packageName)
    IN [wl EXCEPT
           !.packages = IF index > 0
                        THEN SubSeq(@, 1, index - 1) \o SubSeq(@, index + 1, Len(@))
                        ELSE @,
           !.versions = Restrict(@, DOMAIN @ \ {packageName})]

addPattern(wl, pattern) ==
    [wl EXCEPT !.patterns = IF Includes(@, pattern) THEN @ ELSE Append(@, pattern)]

getSummary(wl) ==
    [totalPackages |-> Len(wl.packages), totalPatterns |-> Len(wl.patterns)]

\* the calls made on the checker since its construction: their number, the
\* last mutation, the last mutation naming each package, the last
\* evaluation; initial is the packages list the checker was built with
WlTraceInit(raw) ==
    LET NoCall == [op |-> "none", package |-> <<>>, range |-> RangeNone]
        NoEval == [package |-> <<>>, version |-> Undefined, at |-> 0,
                   result |-> [allowed |-> FALSE, reason |-> ""]]
    IN
    [initial |-> raw.whitelist.packages, n |-> 0, call |-> NoCall,
     last |-> [p \in Names |-> "none"], eval |-> NoEval]

(***************************************************************************)
(* Fast-path checks of SecurityFilterPlugin                                *)
(***************************************************************************)
\* "true", "false", or "throw" when new RegExp(pattern) throws before a match
_isBlockedByPattern(rules, packageName) ==
    LET Stop(p) == ~p.valid \/ packageName \in p.lang
        i == FirstIndex(rules.blockedPatterns, Stop)
    IN IF i = 0 THEN "false"
       ELSE IF rules.blockedPatterns[i].valid THEN "true" ELSE "throw"

\* variant: the allow-list is consulted ahead of the deny-list
_isScopeAllowedAllowFirst(rules, packageName) ==
    IF ~StartsWithAt(packageName)
    THEN rules.allowedScopes = {}
    ELSE LET scope == SplitSlashHead(packageName)
         IN IF rules.allowedScopes # {} THEN scope \in rules.allowedScopes
            ELSE scope \notin rules.blockedScopes

_isScopeAllowed(rules, packageName) ==
    IF ~StartsWithAt(packageName)
    THEN rules.allowedScopes = {}
    ELSE LET scope == SplitSlashHead(packageName)
         IN IF scope \in rules.blockedScopes THEN FALSE
            ELSE IF rules.allowedScopes # {} THEN scope \in rules.allowedScopes
            ELSE TRUE

NoRule == [package |-> <<>>, range |-> RangeNone, strategy |-> "", fallbackVersion |-> <<>>]

\* variant: the last rule that covers the version is applied, not the first
_getVersionRangeRuleLast(rules, packageName, version) ==
    LET list == rules.versionRangeRules
        hits == {i \in 1..Len(list) :
                    list[i].package = packageName /\ satisfies(version, list[i].range)}
    IN IF hits = {} THEN NoRule
       ELSE list[CHOOSE i \in hits : \A j \in hits : j <= i]

_getVersionRangeRule(rules, packageName, version) ==
    LET Hit(rule) == rule.package = packageName /\ satisfies(version, rule.range)
        i == FirstIndex(rules.versionRangeRules, Hit)
    IN IF i = 0 THEN NoRule ELSE rules.versionRangeRules[i]

Decision(blocked, reason, detail) ==
    [threw |-> FALSE, blocked |-> blocked, reason |-> reason, detail |-> detail]

Thrown == [threw |-> TRUE, blocked |-> FALSE, reason |-> "Invalid regular expression", detail |-> ""]

NotBlocked == Decision(FALSE, "", "")

\* versionKey = `${packageName}@${version}`
VersionKey(packageName, version) == packageName \o <<"@">> \o version

\* variant: the exact-version check placed ahead of the pattern and scope checks
_checkPackageBlockVersionFirst(cfg, rules, wl, packageName, version) ==
    LET whitelistCheck == isWhitelisted(wl, packageName, version)
        pattern == _isBlockedByPattern(rules, packageName)
        rangeRule == _getVersionRangeRule(rules, packageName, version)
    IN IF cfg.mode = "whitelist" /\ ~whitelistCheck.allowed
       THEN Decision(TRUE, whitelistCheck.reason, "")
       ELSE IF version # Undefined /\ VersionKey(packageName, version) \in rules.blockedVersions
       THEN Decision(TRUE, "Exact version match in blocklist", "")
       ELSE IF pattern = "throw" THEN Thrown
       ELSE IF pattern = "true"
       THEN Decision(TRUE, "Package name matches blocked pattern", "")
       ELSE IF ~_isScopeAllowed(rules, packageName)
       THEN Decision(TRUE, "Package scope not allowed", "")
       ELSE IF version = Undefined THEN NotBlocked
       ELSE IF rangeRule # NoRule /\ rangeRule.strategy = "block"
       THEN Decision(TRUE, "Version matches blocked range", rangeRule.range.src)
       ELSE NotBlocked

_checkPackageBlock(cfg, rules, wl, packageName, version) ==
    LET whitelistCheck == isWhitelisted(wl, packageName, version)
        pattern == _isBlockedByPattern(rules, packageName)
        rangeRule == _getVersionRangeRule(rules, packageName, version)
    IN IF cfg.mode = "whitelist" /\ ~whitelistCheck.allowed
       THEN Decision(TRUE, whitelistCheck.reason, "")
       ELSE IF pattern = "throw" THEN Thrown
       ELSE IF pattern = "true"
       THEN Decision(TRUE, "Package name matches blocked pattern", "")
       ELSE IF ~_isScopeAllowed(rules, packageName)
       THEN Decision(TRUE, "Package scope not allowed", "")
       ELSE IF version = Undefined THEN NotBlocked
       ELSE IF VersionKey(packageName, version) \in rules.blockedVersions
       THEN Decision(TRUE, "Exact version match in blocklist", "")
       ELSE IF rangeRule # NoRule /\ rangeRule.strategy = "block"
       THEN Decision(TRUE, "Version matches blocked range", rangeRule.range.src)
       ELSE NotBlocked

\* the rules listed in a blocked response; building the list runs the
\* blocked patterns again and throws where _isBlockedByPattern throws
_getAppliedRules(cfg, rules, packageName) ==
    LET pattern == _isBlockedByPattern(rules, packageName)
    IN [threw |-> pattern = "throw",
        whitelistMode |-> cfg.mode = "whitelist",
        blockedPattern |-> pattern = "true"]

(***************************************************************************)
(* Request middleware (register_middlewares)                               *)
(***************************************************************************)
\* A request URL is the sequence of its path segments; a tarball file name
\* ends with the single token ".tgz".
Segments(packageName) ==
    IF IndexOf(packageName, "/") = 0
    THEN <<packageName>>
    ELSE <<SplitSlashHead(packageName), BaseName(packageName)>>

OtherRequest == [kind |-> "other", package |-> <<>>, version |-> <<>>, url |-> <<>>]

\* the tarball URL npm builds: /[@scope/]name/-/name-version.tgz
TarballRequest(p, v) ==
    [kind |-> "tarball", package |-> p, version |-> v,
     url |-> Segments(p) \o << <<"-">>, BaseName(p) \o <<"-">> \o v \o <<".tgz">> >>]

Requests ==
    LET MetadataRequest(p) == [kind |-> "metadata", package |-> p, version |-> <<>>, url |-> Segments(p)]
    IN
    {OtherRequest} \cup {MetadataRequest(p) : p \in Names}
                   \cup {TarballRequest(p, v) : p \in Names, v \in ReqVersions}

\* req.url.match(/^\/(@[^/]+\/)?([^/]+)(?:\/-\/([^/]+\.tgz))?/)
UrlMatch(url) ==
    LET hasScope == /\ Len(url) >= 2
                    /\ StartsWithAt(url[1]) /\ Len(url[1]) >= 2
                    /\ Len(url[2]) >= 1
        k == IF hasScope THEN 2 ELSE 1
        hasTarball == /\ Len(url) >= k + 2
                      /\ url[k + 1] = <<"-">>
                      /\ \E i \in 2..Len(url[k + 2]) : url[k + 2][i] = ".tgz"
        file == url[k + 2]
        last == CHOOSE i \in 2..Len(file) :
                    file[i] = ".tgz" /\ \A j \in (i + 1)..Len(file) : file[j] # ".tgz"
    IN IF Len(url) = 0 \/ Len(url[1]) = 0
       THEN [matched |-> FALSE, packageName |-> <<>>, tarballFile |-> <<>>]
       ELSE [matched |-> TRUE,
             packageName |-> IF hasScope THEN url[1] \o <<"/">> \o url[2] ELSE url[1],
             tarballFile |-> IF hasTarball THEN SubSeq(file, 1, last) ELSE <<>>]

\* tarballFile.match(/-([\d.]+(?:-[a-zA-Z0-9.]+)?)\.tgz$/): group 1 of the
\* leftmost match, Undefined when there is none
ExtractVersion(tarballFile) ==
    LET \* [\d.]+(?:-[a-zA-Z0-9.]+)?
        VersionShape(g) ==
            LET AlnumDot == DigitDot \cup {"a", "b", "s", "t"}
            IN
            \/ Len(g) > 0 /\ AllIn(g, DigitDot)
            \/ \E k \in 2..(Len(g) - 1) :
                  /\ g[k] = "-"
                  /\ AllIn(SubSeq(g, 1, k - 1), DigitDot)
                  /\ AllIn(SubSeq(g, k + 1, Len(g)), AlnumDot)
    IN
    LET stem == SubSeq(tarballFile, 1, Len(tarballFile) - 1)
        starts == {i \in 1..Len(stem) :
                      stem[i] = "-" /\ VersionShape(SubSeq(stem, i + 1, Len(stem)))}
        first == CHOOSE i \in starts : \A j \in starts : i <= j
    IN IF tarballFile = <<>> \/ tarballFile[Len(tarballFile)] # ".tgz" \/ starts = {}
       THEN Undefined
       ELSE SubSeq(stem, first + 1, Len(stem))

\* packageName, version and blockResult are the handler's locals
MwIdle ==
    LET NoBody == [kind |-> "none", package |-> <<>>, version |-> <<>>, reason |-> "", detail |-> ""]
    IN [req |-> OtherRequest, done |-> FALSE, nextCalls |-> 0, nextError |-> FALSE,
           status |-> 0, sends |-> 0, body |-> NoBody,
           packageName |-> <<>>, version |-> Undefined, blockResult |-> NotBlocked]

\* the outcome of the handler of app.use for one request
MiddlewareOutcome(cfg, rules, wl, req) ==
    LET m == UrlMatch(req.url)
        isTarball == m.tarballFile # <<>>
        version == IF isTarball THEN ExtractVersion(m.tarballFile) ELSE Undefined
        blockResult == _checkPackageBlock(cfg, rules, wl, m.packageName, version)
        appliedRules == _getAppliedRules(cfg, rules, m.packageName)
        base == [MwIdle EXCEPT !.req = req, !.done = TRUE,
                               !.packageName = m.packageName, !.version = version]
    IN IF ~m.matched
       THEN [MwIdle EXCEPT !.req = req, !.done = TRUE, !.nextCalls = 1]
       ELSE IF blockResult.threw
       THEN [base EXCEPT !.nextCalls = 1, !.nextError = TRUE, !.blockResult = blockResult]
       ELSE IF blockResult.blocked /\ isTarball
       THEN [base EXCEPT !.status = 403, !.sends = 1, !.blockResult = blockResult,
                 !.body = [kind |-> "error", package |-> m.packageName, version |-> version,
                           reason |-> blockResult.reason, detail |-> blockResult.detail]]
       ELSE IF blockResult.blocked /\ appliedRules.threw
       THEN [base EXCEPT !.nextCalls = 1, !.nextError = TRUE, !.blockResult = blockResult]
       ELSE IF blockResult.blocked
       THEN [base EXCEPT !.status = 200, !.sends = 1, !.blockResult = blockResult,
                 !.body = [kind |-> "blockedDocument", package |-> m.packageName,
                           version |-> <<>>,
                           reason |-> blockResult.reason, detail |-> blockResult.detail]]
       ELSE [base EXCEPT !.nextCalls = 1, !.blockResult = blockResult]

(***************************************************************************)
(* Package documents                                                       *)
(***************************************************************************)
EmptyMap == [x \in {} |-> x]

Created == <<"created">>

\* time is counted in half days
DayMs == 2
Now == 6

NoSecurity == [blocked |-> FALSE, reason |-> "", detail |-> ""]

\* a license string is the sequence of its whitespace-separated words
NoLicense == [kind |-> "absent", words |-> <<>>]
LicenseString(words) == [kind |-> "string", words |-> words]
LicenseObject(words) == [kind |-> "object", words |-> words]
\* { type: <not a string> }
LicenseMalformed == [kind |-> "malformed", words |-> <<>>]

Alice == [kind |-> "object", name |-> "alice", email |-> "alice@example.org"]

VersionData(v, license, authors) ==
    [version |-> v, dist |-> v, license |-> license, authors |-> authors, _fallback |-> FALSE]

(***************************************************************************)
(* LicenseChecker                                                          *)
(***************************************************************************)
LicenseCheckerInit(licenses) ==
    [allowed |-> licenses.allowed,
     blocked |-> licenses.blocked,
     requireLicense |-> licenses.requireLicense # "false"]

\* license.split(/\s+(?:OR|AND)\s+/i), each token trimmed: the runs of
\* words between keywords that have a word on both sides
RECURSIVE SplitFrom(_, _, _)
SplitFrom(words, i, current) ==
    LET \* the words (?:OR|AND) accepts under the i flag
        Keywords == {"OR", "Or", "oR", "or",
                     "AND", "ANd", "AnD", "And", "aND", "aNd", "anD", "and"}
    IN
    IF i > Len(words) THEN <<current>>
    ELSE IF words[i] \in Keywords /\ i > 1 /\ i < Len(words) /\ current # <<>>
         THEN <<current>> \o SplitFrom(words, i + 1, <<>>)
         ELSE SplitFrom(words, i + 1, Append(current, words[i]))

licenseTokens(words) == SplitFrom(words, 1, <<>>)

\* null for a missing or empty license, the string otherwise
extractLicense(versionData) ==
    IF versionData.license.kind = "absent" THEN <<>> ELSE versionData.license.words

\* variant: the blocked list is compared with the whole expression only
isLicenseBlockedExact(lc, license) == license \in lc.blocked

isLicenseBlocked(lc, license) ==
    \E blocked \in lc.blocked :
        blocked = license \/ Includes(licenseTokens(license), blocked)

isLicenseAllowed(lc, license) ==
    \E allowed \in lc.allowed :
        allowed = license \/ Includes(licenseTokens(license), allowed)

LicenseResult(threw, allowed, reason) ==
    [threw |-> threw, allowed |-> allowed, reason |-> reason]

checkLicense(lc, versionData) ==
    LET license == extractLicense(versionData)
    IN IF versionData.license.kind # "malformed"
          /\ (license = <<>> \/ license = <<"UNLICENSED">>)
       THEN IF lc.requireLicense
            THEN LicenseResult(FALSE, FALSE, "Package does not specify a license")
            ELSE LicenseResult(FALSE, TRUE, "")
       ELSE IF versionData.license.kind = "malformed" /\ (lc.blocked # {} \/ lc.allowed # {})
       THEN LicenseResult(TRUE, FALSE, "license.split is not a function")
       ELSE IF versionData.license.kind # "malformed" /\ isLicenseBlocked(lc, license)
       THEN LicenseResult(FALSE, FALSE, "License is in blocked list")
       ELSE IF versionData.license.kind # "malformed"
               /\ lc.allowed # {} /\ ~isLicenseAllowed(lc, license)
       THEN LicenseResult(FALSE, FALSE, "License is not in allowed list")
       ELSE LicenseResult(FALSE, TRUE, "")

(***************************************************************************)
(* PackageAgeChecker                                                       *)
(***************************************************************************)
\* minVersionAgeDays = 0 stands for the unset (falsy) value
PackageAgeCheckerInit(packageAge) ==
    [enabled |-> packageAge.enabled,
     minPackageAgeDays |-> packageAge.minPackageAgeDays,
     minVersionAgeDays |-> packageAge.minVersionAgeDays,
     warnOnly |-> packageAge.warnOnly]

calculateAgeDays(date) == (Now - date) \div DayMs

\* -1 stands for null
getPackageCreationDate(packageData) ==
    LET SetMin(S) == CHOOSE x \in S : \A y \in S : x <= y
    IN
    IF Created \in DOMAIN packageData.time
    THEN packageData.time[Created]
    ELSE IF DOMAIN packageData.time = {}
         THEN -1
         ELSE SetMin({packageData.time[v] : v \in DOMAIN packageData.time})

getVersionPublishDate(packageData, version) ==
    IF version \in DOMAIN packageData.time THEN packageData.time[version] ELSE -1

AgeResult(allowed, warnOnly, reason) ==
    [allowed |-> allowed, warnOnly |-> warnOnly, reason |-> reason]

checkPackageAge(ac, packageData) ==
    LET createdDate == getPackageCreationDate(packageData)
    IN IF ~ac.enabled THEN AgeResult(TRUE, FALSE, "")
       ELSE IF createdDate = -1
       THEN AgeResult(TRUE, FALSE, "Cannot determine package creation date")
       ELSE IF calculateAgeDays(createdDate) < ac.minPackageAgeDays
       THEN AgeResult(ac.warnOnly, ac.warnOnly, "Package is too new")
       ELSE AgeResult(TRUE, FALSE, "")

\* variant: a version whose age equals the minimum is too new as well
checkVersionAgeInclusive(ac, packageData, version) ==
    LET versionDate == getVersionPublishDate(packageData, version)
    IN IF ~ac.enabled \/ ac.minVersionAgeDays = 0 THEN AgeResult(TRUE, FALSE, "")
       ELSE IF versionDate = -1
       THEN AgeResult(TRUE, FALSE, "Cannot determine version publish date")
       ELSE IF calculateAgeDays(versionDate) <= ac.minVersionAgeDays
       THEN AgeResult(ac.warnOnly, ac.warnOnly, "Version is too new")
       ELSE AgeResult(TRUE, FALSE, "")

checkVersionAge(ac, packageData, version) ==
    LET versionDate == getVersionPublishDate(packageData, version)
    IN IF ~ac.enabled \/ ac.minVersionAgeDays = 0 THEN AgeResult(TRUE, FALSE, "")
       ELSE IF versionDate = -1
       THEN AgeResult(TRUE, FALSE, "Cannot determine version publish date")
       ELSE IF calculateAgeDays(versionDate) < ac.minVersionAgeDays
       THEN AgeResult(ac.warnOnly, ac.warnOnly, "Version is too new")
       ELSE AgeResult(TRUE, FALSE, "")

(***************************************************************************)
(* AuthorChecker                                                           *)
(***************************************************************************)
AuthorResult(threw, allowed, reason) ==
    [threw |-> threw, allowed |-> allowed, reason |-> reason]

_checkSingleAuthor(af, author) ==
    IF author.name # "" /\ author.name \in af.blockedAuthors
    THEN AuthorResult(FALSE, FALSE, "Author name is blocked")
    ELSE IF author.email # "" /\ author.email \in af.blockedEmails
    THEN AuthorResult(FALSE, FALSE, "Author email is blocked")
    ELSE AuthorResult(FALSE, TRUE, "")

\* _extractAuthors throws on the first null entry; otherwise the first
\* author that is not allowed decides
checkAuthor(af, versionData) ==
    LET authors == versionData.authors
        IsNull(a) == a.kind = "null"
        Refused(a) == ~_checkSingleAuthor(af, a).allowed
        bad == FirstIndex(authors, Refused)
    IN IF ~af.enabled THEN AuthorResult(FALSE, TRUE, "")
       ELSE IF FirstIndex(authors, IsNull) # 0
       THEN AuthorResult(TRUE, FALSE, "Cannot read properties of null")
       ELSE IF Len(authors) = 0
       THEN IF af.requireVerifiedEmail
            THEN AuthorResult(FALSE, FALSE, "No author information available")
            ELSE AuthorResult(FALSE, TRUE, "")
       ELSE IF bad # 0 THEN _checkSingleAuthor(af, authors[bad])
       ELSE AuthorResult(FALSE, TRUE, "")

(***************************************************************************)
(* filter_metadata                                                         *)
(***************************************************************************)
BATCH_SIZE == 10

VersionOrder == <<V100, V110>> \o ManyVersions(MaxVersions)

\* Object.keys(versions): documents list their versions in ascending order
ObjectKeys(versions) ==
    LET In(v) == v \in DOMAIN versions IN SelectSeq(VersionOrder, In)

NoDocument == [name |-> <<>>, versions |-> EmptyMap, distTags |-> EmptyMap,
               time |-> EmptyMap, security |-> NoSecurity]

\* { ...pkg, versions: {}, 'dist-tags': {}, security: { blocked: true, reason } }
BlockedDocument(pkg, reason, detail) ==
    [pkg EXCEPT !.versions = EmptyMap, !.distTags = EmptyMap,
                !.security = [blocked |-> TRUE, reason |-> reason, detail |-> detail]]

Return(doc) == [kind |-> "return", doc |-> doc, error |-> ""]
\* an exception; doc is the local pkg at the time it is raised
Throw(pkg, error) == [kind |-> "throw", doc |-> pkg, error |-> error]

HasLatest(pkg) ==
    "latest" \in DOMAIN pkg.distTags /\ pkg.distTags["latest"] \in DOMAIN pkg.versions

\* step 4b: the versions that are too new, and the document without them
RemovedVersions(ac, pkg) ==
    {v \in DOMAIN pkg.versions :
        LET r == checkVersionAge(ac, pkg, v) IN ~r.allowed /\ ~r.warnOnly}

\* variant: the versions are pruned and the dist-tags left as they were
PruneVersionsKeepTags(ac, pkg) ==
    LET removedVersions == RemovedVersions(ac, pkg)
    IN [pkg EXCEPT
           !.versions = Restrict(pkg.versions, DOMAIN pkg.versions \ removedVersions)]

\* the highest version of a non-empty set
Highest(S) ==
    LET Rank(v) == CHOOSE i \in 1..Len(VersionOrder) : VersionOrder[i] = v
    IN CHOOSE v \in S : \A w \in S : Rank(w) <= Rank(v)

\* variant: a tag of a pruned version is redirected to the highest version left
PruneVersionsRedirect(ac, pkg) ==
    LET removedVersions == RemovedVersions(ac, pkg)
        left == DOMAIN pkg.versions \ removedVersions
    IN IF removedVersions = {} THEN pkg
       ELSE [pkg EXCEPT
                !.versions = Restrict(pkg.versions, left),
                !.distTags = [t \in {u \in DOMAIN pkg.distTags :
                                        pkg.distTags[u] \in left \/ left # {}} |->
                                 IF pkg.distTags[t] \in left
                                 THEN pkg.distTags[t] ELSE Highest(left)]]

\* variant: a pruned version id is kept and carries the record of the highest
\* version left
PruneVersionsSubstitute(ac, pkg) ==
    LET removedVersions == RemovedVersions(ac, pkg)
        left == DOMAIN pkg.versions \ removedVersions
    IN IF removedVersions = {} THEN pkg
       ELSE IF left = {} THEN [pkg EXCEPT !.versions = EmptyMap, !.distTags = EmptyMap]
       ELSE [pkg EXCEPT
                !.versions = [v \in DOMAIN pkg.versions |->
                                 IF v \in left THEN pkg.versions[v]
                                 ELSE pkg.versions[Highest(left)]]]

\* variant: a tag of a pruned version is moved to the oldest version left
PruneVersionsRetag(ac, pkg) ==
    LET removedVersions == RemovedVersions(ac, pkg)
        left == DOMAIN pkg.versions \ removedVersions
        Rank(v) == CHOOSE i \in 1..Len(VersionOrder) : VersionOrder[i] = v
        oldest == CHOOSE v \in left : \A w \in left : Rank(v) <= Rank(w)
    IN IF removedVersions = {} THEN pkg
       ELSE [pkg EXCEPT
                !.versions = Restrict(pkg.versions, left),
                !.distTags = [t \in {u \in DOMAIN pkg.distTags :
                                        pkg.distTags[u] \in left \/ left # {}} |->
                                 IF pkg.distTags[t] \in left
                                 THEN pkg.distTags[t] ELSE oldest]]

PruneVersions(ac, pkg) ==
    LET removedVersions == RemovedVersions(ac, pkg)
    IN IF removedVersions = {} THEN pkg
       ELSE [pkg EXCEPT
                !.versions = Restrict(pkg.versions, DOMAIN pkg.versions \ removedVersions),
                !.distTags = Restrict(pkg.distTags,
                                 {t \in DOMAIN pkg.distTags : pkg.distTags[t] \notin removedVersions})]

\* step 5, on the document left by step 4
AuthorStep(cfg, pkg) ==
    LET authorResult == checkAuthor(cfg.authorFilter, pkg.versions[pkg.distTags["latest"]])
    IN IF ~(cfg.authorFilter.enabled /\ HasLatest(pkg)) THEN Return(pkg)
       ELSE IF authorResult.threw THEN Throw(pkg, authorResult.reason)
       ELSE IF ~authorResult.allowed /\ ~cfg.authorFilter.warnOnly
       THEN Return(BlockedDocument(pkg, authorResult.reason, ""))
       ELSE Return(pkg)

\* variant: the author check looks at the document as it was before the
\* versions that are too new were pruned
AgeStepAuthorFirst(cfg, pkg) ==
    LET ac == PackageAgeCheckerInit(cfg.packageAge)
        ageResult == checkPackageAge(ac, pkg)
        authorOutcome == AuthorStep(cfg, pkg)
    IN IF ~cfg.packageAge.enabled THEN AuthorStep(cfg, pkg)
       ELSE IF ~ageResult.allowed /\ ~ageResult.warnOnly
       THEN Return(BlockedDocument(pkg, ageResult.reason, ""))
       ELSE IF cfg.packageAge.minVersionAgeDays # 0
       THEN IF authorOutcome.kind = "return" /\ ~authorOutcome.doc.security.blocked
            THEN Return(PruneVersions(ac, pkg)) ELSE authorOutcome
       ELSE AuthorStep(cfg, pkg)

\* step 4, then step 5
AgeStep(cfg, pkg) ==
    LET ac == PackageAgeCheckerInit(cfg.packageAge)
        ageResult == checkPackageAge(ac, pkg)
    IN IF ~cfg.packageAge.enabled THEN AuthorStep(cfg, pkg)
       ELSE IF ~ageResult.allowed /\ ~ageResult.warnOnly
       THEN Return(BlockedDocument(pkg, ageResult.reason, ""))
       ELSE IF cfg.packageAge.minVersionAgeDays # 0
       THEN AuthorStep(cfg, PruneVersions(ac, pkg))
       ELSE AuthorStep(cfg, pkg)

\* step 3, then the later steps
LicenseStep(cfg, pkg) ==
    LET licenseResult == checkLicense(licenseChecker,
                                      pkg.versions[pkg.distTags["latest"]])
    IN IF ~(cfg.licenses.present /\ cfg.licenses.allowed # {} /\ HasLatest(pkg))
       THEN AgeStep(cfg, pkg)
       ELSE IF licenseResult.threw THEN Throw(pkg, licenseResult.reason)
       ELSE IF ~licenseResult.allowed
       THEN Return(BlockedDocument(pkg, licenseResult.reason, ""))
       ELSE AgeStep(cfg, pkg)

\* the end of step 2 (auto-block), then the later steps
AfterCveCheck(cfg, pkg, vulnerableVersions) ==
    IF cfg.cveCheck.enabled /\ cfg.cveCheck.autoBlock /\ Len(vulnerableVersions) > 0
    THEN Return(BlockedDocument(pkg, "Package has vulnerable version(s)", ""))
    ELSE LicenseStep(cfg, pkg)

\* variant: the catch block returns the input whatever the strategy
CatchFilterErrorOpen(cfg, packageInfo, error) == packageInfo

\* the catch block
CatchFilterError(cfg, packageInfo, error) ==
    LET errorStrategy == IF cfg.errorHandling.present
                            /\ cfg.errorHandling.onFilterError # "unset"
                         THEN cfg.errorHandling.onFilterError
                         ELSE "fail-open"
    IN IF errorStrategy = "fail-closed"
       THEN BlockedDocument(packageInfo,
                "Error during security processing (fail-closed mode)", error)
       ELSE packageInfo

\* variant: the catch block works on the local pkg instead of the input
DeliverLocal(cfg, packageInfo, r) ==
    IF r.kind = "throw" THEN CatchFilterError(cfg, r.doc, r.error) ELSE r.doc

\* what filter_metadata returns when the steps end with outcome r
Deliver(cfg, packageInfo, r) ==
    IF r.kind = "throw" THEN CatchFilterError(cfg, packageInfo, r.error) ELSE r.doc

\* filter_metadata run to its return, the lookup of version v settling as
\* cve[v]
filter_metadata(cfg, rules, wl, packageInfo, cve) ==
    LET blockResult == _checkPackageBlock(cfg, rules, wl, packageInfo.name, Undefined)
        appliedRules == _getAppliedRules(cfg, rules, packageInfo.name)
        versions == ObjectKeys(packageInfo.versions)
        IsVulnerable(v) == cve[v] = "vulnerable"
        vulnerableVersions == IF cfg.cveCheck.enabled
                              THEN SelectSeq(versions, IsVulnerable) ELSE <<>>
    IN IF blockResult.threw \/ (blockResult.blocked /\ appliedRules.threw)
       THEN CatchFilterError(cfg, packageInfo, Thrown.reason)
       ELSE IF blockResult.blocked
       THEN BlockedDocument(packageInfo, blockResult.reason, blockResult.detail)
       ELSE Deliver(cfg, packageInfo, AfterCveCheck(cfg, packageInfo, vulnerableVersions))

\* cve[v]: where the lookup of version v stands; issued[v]: the number of
\* checkPackage calls made for v
FmIdle == [pc |-> "idle", packageInfo |-> NoDocument, cve |-> EmptyMap,
           issued |-> EmptyMap, i |-> 0,
           vulnerableVersions |-> <<>>, error |-> "", ret |-> NoDocument]

\* variant: slice(i), every version from i on
BatchRest(versions, i) == SubSeq(versions, i + 1, Len(versions))

\* versions.slice(i, i + BATCH_SIZE)
Batch(versions, i) ==
    SubSeq(versions, i + 1, IF i + BATCH_SIZE < Len(versions) THEN i + BATCH_SIZE ELSE Len(versions))

Returned(f, packageInfo, doc, error) ==
    [f EXCEPT !.pc = "returned", !.packageInfo = packageInfo, !.ret = doc, !.error = error]

\* filter_metadata up to its first await of a CVE batch, or to its return
FilterMetadataCall(packageInfo) ==
    LET blockResult == _checkPackageBlock(config, securityRules, whitelist,
                                          packageInfo.name, Undefined)
        appliedRules == _getAppliedRules(config, securityRules, packageInfo.name)
        versions == ObjectKeys(packageInfo.versions)
        rest == AfterCveCheck(config, packageInfo, <<>>)
    IN /\ fm.pc = "idle"
       /\ fm' = IF blockResult.threw
                THEN Returned(fm, packageInfo,
                         CatchFilterError(config, packageInfo, blockResult.reason),
                         blockResult.reason)
                ELSE IF blockResult.blocked /\ appliedRules.threw
                THEN Returned(fm, packageInfo,
                         CatchFilterError(config, packageInfo, Thrown.reason),
                         Thrown.reason)
                ELSE IF blockResult.blocked
                THEN Returned(fm, packageInfo,
                         BlockedDocument(packageInfo, blockResult.reason, blockResult.detail), "")
                ELSE IF config.cveCheck.enabled /\ Len(versions) > 0
                THEN [fm EXCEPT !.pc = "cve", !.packageInfo = packageInfo, !.i = 0,
                         !.cve = [v \in DOMAIN packageInfo.versions |->
                                     IF v \in Range(Batch(versions, 0))
                                     THEN "pending" ELSE "unsent"],
                         !.issued = [v \in DOMAIN packageInfo.versions |->
                                     IF v \in Range(Batch(versions, 0))
                                     THEN 1 ELSE 0]]
                ELSE Returned(fm, packageInfo, Deliver(config, packageInfo, rest), rest.error)
       /\ UNCHANGED <<config, securityRules, whitelist, licenseChecker, mw, licenseCall,
                    wlTrace, metrics, cache>>

\* one lookup of the batch in flight settles
CveLookupSettles(v, outcome) ==
    /\ fm.pc = "cve"
    /\ v \in DOMAIN fm.cve
    /\ fm.cve[v] = "pending"
    /\ fm' = [fm EXCEPT !.cve[v] = outcome]
    /\ UNCHANGED <<config, securityRules, whitelist, licenseChecker, mw, licenseCall,
                    wlTrace, metrics, cache>>

\* Promise.allSettled resolves: collect the batch, start the next one or run
\* the rest of filter_metadata to its return
FilterMetadataResume ==
    LET versions == ObjectKeys(fm.packageInfo.versions)
        batch == Batch(versions, fm.i)
        IsVulnerable(v) == fm.cve[v] = "vulnerable"
        vulnerableVersions == fm.vulnerableVersions \o SelectSeq(batch, IsVulnerable)
        i == fm.i + BATCH_SIZE
        rest == AfterCveCheck(config, fm.packageInfo, vulnerableVersions)
    IN /\ fm.pc = "cve"
       /\ \A v \in Range(batch) : fm.cve[v] \in {"clean", "vulnerable", "rejected"}
       /\ fm' = IF i < Len(versions)
                THEN [fm EXCEPT !.i = i, !.vulnerableVersions = vulnerableVersions,
                         !.cve = [v \in DOMAIN fm.cve |->
                                     IF v \in Range(Batch(versions, i))
                                     THEN "pending" ELSE fm.cve[v]],
                         !.issued = [v \in DOMAIN fm.issued |->
                                     IF v \in Range(Batch(versions, i))
                                     THEN fm.issued[v] + 1 ELSE fm.issued[v]]]
                ELSE [Returned(fm, fm.packageInfo,
                          Deliver(config, fm.packageInfo, rest), rest.error)
                      EXCEPT !.vulnerableVersions = vulnerableVersions]
       /\ UNCHANGED <<config, securityRules, whitelist, licenseChecker, mw, licenseCall,
                    wlTrace, metrics, cache>>

(***************************************************************************)
(* MetricsCollector                                                        *)
(***************************************************************************)
bufferSize == 100
maxBufferSize == 500

\* config.metrics is absent, or a record whose output may be unset
MetricsAbsent == [enabled |-> FALSE, output |-> "unset"]

\* stdout and file are what console.log and fs.appendFileSync have received;
\* writable tells whether the append to config.filePath succeeds; recorded
\* counts the calls of record, and the n-th event recorded is the number n
MetricsCollectorInit(m) ==
    [enabled |-> m.enabled,
     output |-> IF m.output = "unset" THEN "stdout" ELSE m.output,
     metricsBuffer |-> <<>>, stdout |-> <<>>, file |-> <<>>,
     writable |-> TRUE, recorded |-> 0, ended |-> FALSE]

\* appendFileSync appends the whole content or throws; the error is caught
writeToFile(mc, buffer) ==
    IF mc.writable THEN [mc EXCEPT !.file = @ \o buffer] ELSE mc

flush(mc) ==
    IF Len(mc.metricsBuffer) = 0 THEN mc
    ELSE IF mc.output = "stdout"
    THEN [mc EXCEPT !.stdout = @ \o mc.metricsBuffer, !.metricsBuffer = <<>>]
    ELSE IF mc.output = "file"
    THEN [writeToFile(mc, mc.metricsBuffer) EXCEPT !.metricsBuffer = <<>>]
    ELSE [mc EXCEPT !.metricsBuffer = <<>>]

record(mc, event) ==
    LET a == IF Len(mc.metricsBuffer) >= maxBufferSize THEN flush(mc) ELSE mc
        b == [a EXCEPT !.metricsBuffer = Append(@, event)]
    IN IF ~mc.enabled THEN mc
       ELSE IF Len(b.metricsBuffer) >= bufferSize THEN flush(b) ELSE b

cleanup(mc) == flush(mc)

(***************************************************************************)
(* LRUCache                                                                *)
(***************************************************************************)
DefaultMaxSize == 1000

\* cache is the Map, as the sequence of its entries in insertion order;
\* recency lists the keys from the least to the most recently used, where a
\* get that hits and a set use a key; call is the last call and what it
\* returned
LRUCacheInit(maxSize) ==
    [maxSize |-> maxSize, cache |-> <<>>, recency |-> <<>>,
     call |-> [op |-> "new", key |-> "", returned |-> "", before |-> <<>>]]

Keys(entries) == {entries[i].key : i \in 1..Len(entries)}

\* Map.prototype.delete
MapDelete(entries, key) ==
    LET Other(e) == e.key # key IN SelectSeq(entries, Other)

\* Map.prototype.set: a present key keeps its place, a new one goes last
MapSet(entries, key, value) ==
    IF key \in Keys(entries)
    THEN [i \in 1..Len(entries) |->
             IF entries[i].key = key THEN [key |-> key, value |-> value] ELSE entries[i]]
    ELSE Append(entries, [key |-> key, value |-> value])

MapGet(entries, key) ==
    (CHOOSE e \in Range(entries) : e.key = key).value

\* the key undefined, which a Map accepts like any other
UndefinedKey == "undefined"

\* the Map after get(key): a hit moves the entry to the end
lruGet(entries, key) ==
    IF key \notin Keys(entries) THEN entries
    ELSE MapSet(MapDelete(entries, key), key, MapGet(entries, key))

\* the Map after set(key, value); on a full Map the first key is deleted
\* unless it is the value undefined
lruSet(entries, maxSize, key, value) ==
    LET firstKey == entries[1].key
        a == IF key \in Keys(entries) THEN MapDelete(entries, key)
             ELSE IF Len(entries) >= maxSize
                  THEN IF Len(entries) > 0 /\ firstKey # UndefinedKey
                       THEN MapDelete(entries, firstKey) ELSE entries
                  ELSE entries
    IN MapSet(a, key, value)

(***************************************************************************)
(* Configurations                                                          *)
(***************************************************************************)
RuleBlockA == [package |-> NameA, range |-> RangeLow, strategy |-> "block",
               fallbackVersion |-> <<>>]
RuleFallbackA == [package |-> NameA, range |-> RangeLow, strategy |-> "fallback",
                  fallbackVersion |-> V110]
\* dropped by the constructor: fallback without fallbackVersion
RuleNoFallback == [package |-> NameA, range |-> RangeAny, strategy |-> "fallback",
                   fallbackVersion |-> <<>>]
RuleSet ==
    LET RuleBlockA2 == [package |-> NameA2, range |-> RangeAny, strategy |-> "block",
                        fallbackVersion |-> <<>>]
    IN {RuleBlockA, RuleFallbackA, RuleBlockA2, RuleNoFallback}

WhitelistEmpty == [packages |-> <<>>, patterns |-> <<>>, versions |-> EmptyMap]
WhitelistPackages == [packages |-> <<NameA, NameSB>>, patterns |-> <<>>,
                      versions |-> (NameA :> RangeHigh)]
WhitelistPatterns == [packages |-> <<>>, patterns |-> <<ReBad, ReAll>>,
                      versions |-> EmptyMap]

MIT == <<"MIT">>
GPL == <<"GPL-3.0">>

LicensesAbsent == [present |-> FALSE, allowed |-> {}, blocked |-> {}, requireLicense |-> "unset"]
AgeOff == [enabled |-> FALSE, minPackageAgeDays |-> 0, minVersionAgeDays |-> 0,
           warnOnly |-> FALSE]
AuthorOff == [enabled |-> FALSE, warnOnly |-> FALSE, requireVerifiedEmail |-> FALSE,
              blockedAuthors |-> {}, blockedEmails |-> {}]

DefaultRaw ==
    LET CveOff == [enabled |-> FALSE, autoBlock |-> FALSE]
    IN
    [mode |-> "blacklist", whitelist |-> WhitelistEmpty,
     blockedPatterns |-> <<>>, allowedScopes |-> {}, blockedScopes |-> {},
     blockedVersions |-> {}, versionRangeRules |-> <<>>,
     errorHandling |-> NoErrorHandling, cveCheck |-> CveOff,
     licenses |-> LicensesAbsent, packageAge |-> AgeOff, authorFilter |-> AuthorOff,
     metrics |-> MetricsAbsent]

\* entries the constructor drops: no package, no range, no strategy, a range
\* semver.validRange rejects
RuleNoPackage == [package |-> <<>>, range |-> RangeAny, strategy |-> "block",
                  fallbackVersion |-> <<>>]
RuleNoRange == [package |-> NameA, range |-> RangeNone, strategy |-> "block",
                fallbackVersion |-> <<>>]
RuleNoStrategy == [package |-> NameA, range |-> RangeAny, strategy |-> "",
                   fallbackVersion |-> <<>>]
RuleBadRange ==
    LET RangeBad == [src |-> "not-a-range", valid |-> FALSE, sat |-> {}]
    IN [package |-> NameA, range |-> RangeBad, strategy |-> "block",
                 fallbackVersion |-> <<>>]

DeepRawConfigs ==
    LET AgeChoices ==
            {AgeOff,
             [enabled |-> TRUE, minPackageAgeDays |-> 0, minVersionAgeDays |-> 1, warnOnly |-> FALSE],
             [enabled |-> TRUE, minPackageAgeDays |-> 0, minVersionAgeDays |-> 1, warnOnly |-> TRUE],
             [enabled |-> TRUE, minPackageAgeDays |-> 0, minVersionAgeDays |-> 2, warnOnly |-> FALSE],
             [enabled |-> TRUE, minPackageAgeDays |-> 2, minVersionAgeDays |-> 0, warnOnly |-> FALSE]}
        LicenseChoices ==
            {[present |-> TRUE, allowed |-> {MIT}, blocked |-> {}, requireLicense |-> "unset"],
             [present |-> TRUE, allowed |-> {MIT}, blocked |-> {GPL}, requireLicense |-> "false"],
             [present |-> TRUE, allowed |-> {}, blocked |-> {GPL}, requireLicense |-> "unset"]}
    IN
    LET \* the deep-check parts of the configurations filter_metadata is run under
        DeepChoices ==
            LET ErrorHandlingChoices ==
                    {NoErrorHandling,
                     [present |-> TRUE, onFilterError |-> "unset", onCveCheckError |-> "unset"],
                     [present |-> TRUE, onFilterError |-> "fail-closed", onCveCheckError |-> "fail-open"],
                     [present |-> TRUE, onFilterError |-> "fail-open", onCveCheckError |-> "fail-closed"]}
                CveChoices ==
                    {[enabled |-> TRUE, autoBlock |-> FALSE], [enabled |-> TRUE, autoBlock |-> TRUE]}
                AuthorChoices ==
                    {AuthorOff,
                     [AuthorOff EXCEPT !.enabled = TRUE, !.blockedAuthors = {"mallory"}],
                     [AuthorOff EXCEPT !.enabled = TRUE, !.blockedAuthors = {"mallory"}, !.warnOnly = TRUE],
                     [AuthorOff EXCEPT !.enabled = TRUE, !.requireVerifiedEmail = TRUE,
                                       !.blockedEmails = {"mallory@example.org"}]}
            IN
            {[DefaultRaw EXCEPT !.errorHandling = eh, !.packageAge = ag, !.authorFilter = af] :
                eh \in ErrorHandlingChoices, ag \in AgeChoices, af \in AuthorChoices}
            \cup
            {[DefaultRaw EXCEPT !.errorHandling = eh, !.cveCheck = cv, !.packageAge = ag] :
                eh \in ErrorHandlingChoices, cv \in CveChoices,
                ag \in {a \in AgeChoices : a.minPackageAgeDays = 0 /\ a.minVersionAgeDays < 2 /\ ~a.warnOnly}}
            \cup
            {[DefaultRaw EXCEPT !.errorHandling = eh, !.licenses = li] :
                eh \in ErrorHandlingChoices, li \in LicenseChoices}
            \cup
            {[DefaultRaw EXCEPT !.licenses = li, !.packageAge = ag] :
                li \in {l \in LicenseChoices : l.allowed # {} /\ l.blocked = {}},
                ag \in {a \in AgeChoices : a.minVersionAgeDays = 1 /\ ~a.warnOnly}}
        \* the fast-path parts of the configurations filter_metadata is run under
        FastChoices ==
            {[DefaultRaw EXCEPT !.blockedPatterns = bp] :
                bp \in SeqsUpTo({ReBad, ReA2}, MaxPatterns)}
            \cup
            {[DefaultRaw EXCEPT !.blockedVersions = bv, !.versionRangeRules = rr] :
                bv \in {{}, {VersionKey(NameA, V100)}},
                rr \in SeqsUpTo({RuleBlockA, RuleFallbackA}, MaxRules - 1)}
            \cup
            {[DefaultRaw EXCEPT !.mode = "whitelist", !.whitelist = WhitelistPackages],
             [DefaultRaw EXCEPT !.mode = "whitelist", !.blockedPatterns = <<ReBad>>]}
    IN
    {[d EXCEPT !.mode = f.mode, !.whitelist = f.whitelist,
               !.blockedPatterns = f.blockedPatterns,
               !.blockedVersions = f.blockedVersions,
               !.versionRangeRules = f.versionRangeRules] :
        d \in DeepChoices, f \in FastChoices}

(***************************************************************************)
(* Input documents                                                         *)
(***************************************************************************)
\* what a version carries: its publish time (-1: not recorded), its license
\* and its authors
Profile(time, license, authors) == [time |-> time, license |-> license, authors |-> authors]

Old == Profile(0, LicenseString(MIT), <<Alice>>)
Young == Profile(5, LicenseString(MIT), <<Alice>>)

\* the document with versions prof (a map from version ids to profiles)
Document(name, prof, tags, created) ==
    [name |-> name,
     versions |-> [v \in DOMAIN prof |->
                      VersionData(v, prof[v].license, prof[v].authors)],
     distTags |-> tags,
     time |-> [k \in {v \in DOMAIN prof : prof[v].time # -1}
                     \cup (IF created = -1 THEN {} ELSE {Created}) |->
                  IF k = Created THEN created ELSE prof[k].time],
     security |-> NoSecurity]

Documents ==
    LET Profiles ==
            LET Mallory == [kind |-> "object", name |-> "mallory", email |-> "mallory@example.org"]
                \* a null entry in maintainers
                NullAuthor == [kind |-> "null", name |-> "", email |-> ""]
            IN
            {Old, Young,
             Profile(3, LicenseString(MIT), <<Alice>>),
             Profile(-1, LicenseString(MIT), <<Alice>>),
             Profile(0, LicenseString(MIT), <<Mallory>>),
             Profile(5, LicenseString(MIT), <<Mallory>>),
             Profile(0, LicenseString(MIT), <<Alice, NullAuthor>>),
             Profile(0, LicenseString(<<"MIT", "OR", "GPL-3.0">>), <<Alice>>),
             Profile(0, LicenseObject(GPL), <<Alice>>),
             Profile(0, LicenseMalformed, <<Alice>>),
             Profile(0, NoLicense, <<>>)}
        TagChoices ==
            {EmptyMap, "latest" :> V100, "latest" :> V110,
             ("latest" :> V110) @@ ("stable" :> V100)}
    IN
    {Document(NameA, (V100 :> p) @@ (V110 :> q), tags, -1) :
        p \in Profiles, q \in {Old, Young},
        tags \in {t \in TagChoices : t # ("latest" :> V110)}}
    \cup
    {Document(NameA, (V100 :> p) @@ (V110 :> q), tags, -1) :
        p \in {Old, Young}, q \in Profiles,
        tags \in {t \in TagChoices : t # ("latest" :> V110)}}
    \cup
    {Document(NameA, V100 :> p, tags, -1) :
        p \in Profiles, tags \in {t \in TagChoices : "stable" \notin DOMAIN t}}
    \cup
    {Document(name, V100 :> Old, "latest" :> V100, created) :
        name \in Names, created \in {0, 5}}

\* every dist-tag of the document points at one of its versions
TagsResolve(doc) == \A t \in DOMAIN doc.distTags : doc.distTags[t] \in DOMAIN doc.versions

(***************************************************************************)
(* Specifications                                                          *)
(***************************************************************************)
ConstructedPlugin(raw) ==
    LET \* no call of checkLicense made yet
        LicenseIdle == [called |-> FALSE, versionData |-> VersionData(<<>>, NoLicense, <<>>),
                        result |-> LicenseResult(FALSE, TRUE, "")]
    IN
    /\ config = ConstructorConfig(raw)
    /\ securityRules = ConstructorRules(raw)
    /\ whitelist = WhitelistCheckerInit(raw)
    /\ licenseChecker = LicenseCheckerInit(raw.licenses)
    /\ mw = MwIdle
    /\ fm = FmIdle
    /\ licenseCall = LicenseIdle
    /\ wlTrace = WlTraceInit(raw)

Constructed(raw) ==
    /\ ConstructedPlugin(raw)
    /\ metrics = MetricsCollectorInit(raw.metrics)
    /\ cache = LRUCacheInit(DefaultMaxSize)

Init == \E raw \in DeepRawConfigs : Constructed(raw)

Next ==
    \/ \E packageInfo \in Documents : FilterMetadataCall(packageInfo)
    \/ \E v \in {V100, V110}, outcome \in {"clean", "vulnerable", "rejected"} :
          CveLookupSettles(v, outcome)
    \/ FilterMetadataResume

Spec == Init /\ [][Next]_vars

ManyVersionDocuments ==
    LET ManyVersionDocument(n) ==
            Document(NameA, [v \in Range(ManyVersions(n)) |-> Old],
                     "latest" :> ManyVersions(n)[1], -1)
    IN {ManyVersionDocument(n) : n \in {MaxVersions - 1, MaxVersions}}

\* the lookups that may report a vulnerability: the last one of each document
CveOutcomes(v) ==
    IF \E n \in {MaxVersions - 1, MaxVersions} : v = ManyVersions(n)[n]
    THEN {"clean", "vulnerable", "rejected"} ELSE {"clean", "rejected"}

InitCve ==
    LET \* filter_metadata with the CVE check on, for documents of more versions than
        \* one batch holds
        CveRawConfigs == {[DefaultRaw EXCEPT !.cveCheck = [enabled |-> TRUE, autoBlock |-> TRUE]]}
    IN \E raw \in CveRawConfigs : Constructed(raw)

NextCve ==
    \/ \E packageInfo \in ManyVersionDocuments : FilterMetadataCall(packageInfo)
    \/ \E v \in Range(ManyVersions(MaxVersions)) :
          \E outcome \in CveOutcomes(v) : CveLookupSettles(v, outcome)
    \/ FilterMetadataResume

SpecCve == InitCve /\ [][NextCve]_vars

\* metrics.record(event); the n-th event recorded is the number n
Record ==
    /\ ~metrics.ended
    /\ metrics.recorded < MaxEvents
    /\ metrics' = [record(metrics, metrics.recorded + 1) EXCEPT !.recorded = @ + 1]
    /\ UNCHANGED <<config, securityRules, whitelist, licenseChecker, mw, fm, licenseCall,
                   wlTrace, cache>>

\* metrics.flush() with events in the buffer
Flush ==
    /\ ~metrics.ended
    /\ Len(metrics.metricsBuffer) > 0
    /\ metrics' = flush(metrics)
    /\ UNCHANGED <<config, securityRules, whitelist, licenseChecker, mw, fm, licenseCall,
                   wlTrace, cache>>

\* metrics.cleanup(), the last call made on the collector
Cleanup ==
    /\ ~metrics.ended
    /\ metrics' = [cleanup(metrics) EXCEPT !.ended = TRUE]
    /\ UNCHANGED <<config, securityRules, whitelist, licenseChecker, mw, fm, licenseCall,
                   wlTrace, cache>>

\* the file at config.filePath can be appended to, or it cannot
InitMetrics ==
    LET MetricsChoices ==
            {MetricsAbsent,
             [enabled |-> TRUE, output |-> "unset"],
             [enabled |-> TRUE, output |-> "stdout"],
             [enabled |-> TRUE, output |-> "file"],
             [enabled |-> FALSE, output |-> "file"]}
    IN
    \E m \in MetricsChoices :
        \E w \in IF m.enabled /\ m.output = "file" THEN BOOLEAN ELSE {TRUE} :
            /\ ConstructedPlugin([DefaultRaw EXCEPT !.metrics = m])
            /\ metrics = [MetricsCollectorInit(m) EXCEPT !.writable = w]
            /\ cache = LRUCacheInit(DefaultMaxSize)

NextMetrics == Record \/ Flush \/ Cleanup

SpecMetrics == InitMetrics /\ [][NextMetrics]_vars

\* the keys the cache is called with
CacheKeys == {UndefinedKey, "a", "b", "c"}

\* recency after key has been used
Used(recency, key) ==
    LET Other(k) == k # key IN Append(SelectSeq(recency, Other), key)

LruCall(op, key, returned) ==
    [op |-> op, key |-> key, returned |-> returned, before |-> cache.recency]

\* cache.get(key)
LruGet(key) ==
    /\ cache' = [cache EXCEPT
                     !.cache = lruGet(@, key),
                     !.recency = IF key \in Keys(cache.cache) THEN Used(@, key) ELSE @,
                     !.call = LruCall("get", key,
                                  IF key \in Keys(cache.cache)
                                  THEN MapGet(cache.cache, key) ELSE "undefined")]
    /\ UNCHANGED <<config, securityRules, whitelist, licenseChecker, mw, fm, licenseCall,
                   wlTrace, metrics>>

\* cache.set(key, value)
LruSet(key, value) ==
    /\ cache' = [cache EXCEPT
                     !.cache = lruSet(@, cache.maxSize, key, value),
                     !.recency = LET Kept(k) == k \in Keys(lruSet(cache.cache, cache.maxSize,
                                                                  key, value))
                                 IN SelectSeq(Used(@, key), Kept),
                     !.call = LruCall("set", key, "undefined")]
    /\ UNCHANGED <<config, securityRules, whitelist, licenseChecker, mw, fm, licenseCall,
                   wlTrace, metrics>>

\* cache.has(key)
LruHas(key) ==
    /\ cache' = [cache EXCEPT
                     !.call = LruCall("has", key,
                                  IF key \in Keys(cache.cache) THEN "true" ELSE "false")]
    /\ UNCHANGED <<config, securityRules, whitelist, licenseChecker, mw, fm, licenseCall,
                   wlTrace, metrics>>

\* cache.delete(key)
LruDelete(key) ==
    /\ cache' = [cache EXCEPT
                     !.cache = MapDelete(@, key),
                     !.recency = LET Other(k) == k # key IN SelectSeq(@, Other),
                     !.call = LruCall("delete", key,
                                  IF key \in Keys(cache.cache) THEN "true" ELSE "false")]
    /\ UNCHANGED <<config, securityRules, whitelist, licenseChecker, mw, fm, licenseCall,
                   wlTrace, metrics>>

\* cache.clear()
LruClear ==
    /\ cache' = [cache EXCEPT !.cache = <<>>, !.recency = <<>>,
                               !.call = LruCall("clear", "", "undefined")]
    /\ UNCHANGED <<config, securityRules, whitelist, licenseChecker, mw, fm, licenseCall,
                   wlTrace, metrics>>

InitLru ==
    \E maxSize \in 1..MaxSize :
        /\ ConstructedPlugin(DefaultRaw)
        /\ metrics = MetricsCollectorInit(MetricsAbsent)
        /\ cache = LRUCacheInit(maxSize)

NextLru ==
    \/ \E key \in CacheKeys : LruGet(key)
    \/ \E key \in CacheKeys, value \in {"v", "w"} : LruSet(key, value)
    \/ \E key \in CacheKeys : LruHas(key)
    \/ \E key \in CacheKeys : LruDelete(key)
    \/ LruClear

SpecLru == InitLru /\ [][NextLru]_vars

\* the middleware handles one request
Middleware(req) ==
    /\ ~mw.done
    /\ mw' = MiddlewareOutcome(config, securityRules, whitelist, req)
    /\ UNCHANGED <<config, securityRules, whitelist, licenseChecker, fm, licenseCall,
                 wlTrace, metrics, cache>>

InitMiddleware ==
    LET MiddlewareRawConfigs ==
            LET \* the configurations the middleware is run under
                FastRawConfigs ==
                    LET ModeChoices ==
                            {<<"blacklist", WhitelistEmpty>>, <<"whitelist", WhitelistEmpty>>,
                             <<"whitelist", WhitelistPackages>>, <<"whitelist", WhitelistPatterns>>}
                        ScopeChoices ==
                            LET ScopeT == <<"@", "t">>
                            IN
                            {<<{}, {}>>, <<{ScopeS}, {}>>, <<{ScopeT}, {}>>, <<{}, {ScopeS}>>}
                        BlockedVersionChoices ==
                            {{}, {VersionKey(NameA, V100)},
                             {VersionKey(NameA2, V100), VersionKey(NameSB, V110), VersionKey(NameA, V100B)}}
                    IN
                    {[DefaultRaw EXCEPT !.mode = m[1], !.whitelist = m[2], !.blockedPatterns = bp,
                                        !.allowedScopes = sc[1], !.blockedScopes = sc[2],
                                        !.blockedVersions = bv, !.versionRangeRules = rr] :
                        m \in ModeChoices, bp \in SeqsUpTo({ReBad, ReA2, ReSB}, MaxPatterns),
                        sc \in ScopeChoices, bv \in BlockedVersionChoices,
                        rr \in SeqsUpTo(RuleSet, MaxRules)}
                \* further configurations the middleware is run under: rule lists with
                \* entries of every kind, a constrained package approved by pattern, a scope
                \* in both scope lists
                PolicyRawConfigs ==
                    LET AllRules ==
                            LET RuleBlockHighA == [package |-> NameA, range |-> RangeHigh, strategy |-> "block",
                                                   fallbackVersion |-> <<>>]
                                RuleFallbackAnyA == [package |-> NameA, range |-> RangeAny, strategy |-> "fallback",
                                                     fallbackVersion |-> V110]
                            IN
                            RuleSet \cup {RuleNoPackage, RuleNoRange, RuleNoStrategy, RuleBadRange,
                                          RuleBlockHighA, RuleFallbackAnyA}
                        \* packages approved by pattern, one of them with a version constraint
                        WhitelistPatternVersions == [packages |-> <<>>, patterns |-> <<ReAll>>,
                                                     versions |-> (NameA :> RangeHigh)]
                    IN
                    {[DefaultRaw EXCEPT !.versionRangeRules = rr] : rr \in SeqsUpTo(AllRules, MaxRules)}
                    \cup
                    {[DefaultRaw EXCEPT !.mode = "whitelist", !.whitelist = WhitelistPatternVersions,
                                        !.blockedPatterns = bp] :
                        bp \in SeqsUpTo({ReBad, ReA2}, MaxPatterns)}
                    \cup
                    {[DefaultRaw EXCEPT !.allowedScopes = {ScopeS}, !.blockedScopes = {ScopeS},
                                        !.blockedPatterns = bp] :
                        bp \in SeqsUpTo({ReBad, ReA2}, MaxPatterns)}
            IN FastRawConfigs \cup PolicyRawConfigs
    IN \E raw \in MiddlewareRawConfigs : Constructed(raw)

NextMiddleware == \E req \in Requests : Middleware(req)

SpecMiddleware == InitMiddleware /\ [][NextMiddleware]_vars

\* one call of licenseChecker.checkLicense(versionData)
CheckLicense(versionData) ==
    /\ ~licenseCall.called
    /\ licenseCall' = [called |-> TRUE, versionData |-> versionData,
                       result |-> checkLicense(licenseChecker, versionData)]
    /\ UNCHANGED <<config, securityRules, whitelist, licenseChecker, mw, fm,
                 wlTrace, metrics, cache>>

APACHE == <<"Apache-2.0">>
MitOrApache == <<"MIT", "OR", "Apache-2.0">>
MitAndGpl == <<"MIT", "AND", "GPL-3.0">>

\* the license fields checkLicense is run on
LicenseFields ==
    {NoLicense, LicenseString(<<>>), LicenseString(<<"UNLICENSED">>),
     LicenseString(MIT), LicenseString(GPL), LicenseString(APACHE),
     LicenseString(MitOrApache), LicenseString(MitAndGpl),
     LicenseString(<<"GPL-3.0", "or", "MIT">>),
     LicenseString(<<"Apache-2.0", "OR", "OR", "MIT">>),
     LicenseObject(GPL), LicenseObject(MitOrApache), LicenseObject(<<>>),
     LicenseMalformed}

InitLicense ==
    LET \* the license policies checkLicense is run under
        LicensePolicies ==
            {LicensesAbsent}
            \cup
            {[present |-> TRUE, allowed |-> al, blocked |-> bl, requireLicense |-> rl] :
                al \in {{}, {MIT}, {MIT, APACHE}, {MitOrApache}},
                bl \in {{}, {GPL}, {MIT}, {MitAndGpl}},
                rl \in {"unset", "true", "false"}}
    IN \E li \in LicensePolicies : Constructed([DefaultRaw EXCEPT !.licenses = li])

NextLicense == \E f \in LicenseFields : CheckLicense(VersionData(V100, f, <<Alice>>))

SpecLicense == InitLicense /\ [][NextLicense]_vars

\* whitelistChecker.addPackage(packageName, versionRange); the checker's
\* lists are the very arrays of the plugin configuration
AddPackage(packageName, versionRange) ==
    /\ wlTrace.n < MaxCalls
    /\ whitelist' = addPackage(whitelist, packageName, versionRange)
    /\ config' = [config EXCEPT !.whitelist = whitelist']
    /\ wlTrace' = [wlTrace EXCEPT !.n = @ + 1, !.last[packageName] = "addPackage",
                       !.call = [op |-> "addPackage", package |-> packageName,
                                 range |-> versionRange]]
    /\ UNCHANGED <<securityRules, licenseChecker, mw, fm, licenseCall, metrics, cache>>

\* whitelistChecker.removePackage(packageName)
RemovePackage(packageName) ==
    /\ wlTrace.n < MaxCalls
    /\ whitelist' = removePackage(whitelist, packageName)
    /\ config' = [config EXCEPT !.whitelist = whitelist']
    /\ wlTrace' = [wlTrace EXCEPT !.n = @ + 1, !.last[packageName] = "removePackage",
                       !.call = [op |-> "removePackage", package |-> packageName,
                                 range |-> RangeNone]]
    /\ UNCHANGED <<securityRules, licenseChecker, mw, fm, licenseCall, metrics, cache>>

\* whitelistChecker.addPattern(pattern)
AddPattern(pattern) ==
    /\ wlTrace.n < MaxCalls
    /\ whitelist' = addPattern(whitelist, pattern)
    /\ config' = [config EXCEPT !.whitelist = whitelist']
    /\ wlTrace' = [wlTrace EXCEPT !.n = @ + 1,
                       !.call = [op |-> "addPattern", package |-> <<>>, range |-> RangeNone]]
    /\ UNCHANGED <<securityRules, licenseChecker, mw, fm, licenseCall, metrics, cache>>

\* an evaluation whitelistChecker.isWhitelisted(packageName, version), run
\* between two mutations
IsWhitelisted(packageName, version) ==
    /\ wlTrace' = [wlTrace EXCEPT
                       !.eval = [package |-> packageName, version |-> version,
                                 at |-> wlTrace.n,
                                 result |-> isWhitelisted(whitelist, packageName, version)]]
    /\ wlTrace' # wlTrace
    /\ UNCHANGED <<config, securityRules, whitelist, licenseChecker, mw, fm, licenseCall,
                   metrics, cache>>

InitWhitelist ==
    LET \* the whitelists the checker is built with
        WhitelistChoices ==
            LET \* a packages list that names a package twice
                WhitelistTwice == [packages |-> <<NameA, NameSB, NameA>>, patterns |-> <<>>,
                                   versions |-> (NameA :> RangeHigh)]
            IN
            {WhitelistEmpty, WhitelistPackages, WhitelistPatterns, WhitelistTwice,
             [packages |-> <<NameA2>>, patterns |-> <<ReSB>>, versions |-> EmptyMap]}
    IN
    \E wl \in WhitelistChoices :
        Constructed([DefaultRaw EXCEPT !.mode = "whitelist", !.whitelist = wl])

NextWhitelist ==
    \/ \E p \in Names, r \in {RangeNone, RangeLow} : AddPackage(p, r)
    \/ \E p \in Names : RemovePackage(p)
    \/ \E pattern \in {ReSB} : AddPattern(pattern)
    \/ \E p \in Names, v \in {Undefined, V100, V110} : IsWhitelisted(p, v)

SpecWhitelist == InitWhitelist /\ [][NextWhitelist]_vars

(***************************************************************************)
(* Claims                                                                  *)
(***************************************************************************)

\* C1: whenever the middleware refuses the tarball of p@v because of an exact
\* block entry or a range rule with strategy block, the document
\* filter_metadata returns for p does not list v.
C1_SamePolicyAtBothPoints ==
    fm.pc = "returned" =>
        \A v \in ReqVersions :
            LET o == MiddlewareOutcome(config, securityRules, whitelist,
                                       TarballRequest(fm.packageInfo.name, v))
            IN (o.status = 403 /\ o.blockResult.reason \in
                    {"Exact version match in blocklist", "Version matches blocked range"})
               => v \notin DOMAIN fm.ret.versions

\* C2: a tarball request for a package and version that has an exact
\* package@version block entry is answered 403 and next() is not called,
\* whatever the rest of the configuration is (stated here for the
\* configurations whose blocked patterns all compile).
C2_ExactBlockEntryAlwaysBlocks ==
    (mw.done /\ mw.req.kind = "tarball"
        /\ VersionKey(mw.req.package, mw.req.version) \in securityRules.blockedVersions
        /\ \A i \in 1..Len(securityRules.blockedPatterns) :
               securityRules.blockedPatterns[i].valid)
    => (mw.status = 403 /\ mw.nextCalls = 0)

\* C3: a decision returned by _checkPackageBlock is that of the first
\* objecting check in the order whitelist (whitelist mode only), blocked
\* pattern, scope, exact version, range rule with strategy block; it is
\* not-blocked exactly when no check objects; the two version checks object
\* only when a version is supplied.
C3_FirstObjectingCheckDecides ==
    (mw.done /\ mw.req.kind # "other" /\ ~mw.blockResult.threw) =>
        LET name == mw.packageName
            version == mw.version
            wl == isWhitelisted(whitelist, name, version)
            rule == _getVersionRangeRule(securityRules, name, version)
            checks ==
                << [objects |-> config.mode = "whitelist" /\ ~wl.allowed,
                    reason |-> wl.reason],
                   [objects |-> \E i \in 1..Len(securityRules.blockedPatterns) :
                                    name \in securityRules.blockedPatterns[i].lang,
                    reason |-> "Package name matches blocked pattern"],
                   [objects |-> ~_isScopeAllowed(securityRules, name),
                    reason |-> "Package scope not allowed"],
                   [objects |-> /\ version # Undefined
                                /\ VersionKey(name, version) \in securityRules.blockedVersions,
                    reason |-> "Exact version match in blocklist"],
                   [objects |-> /\ version # Undefined
                                /\ rule # NoRule /\ rule.strategy = "block",
                    reason |-> "Version matches blocked range"] >>
            Objects(c) == c.objects
            first == FirstIndex(checks, Objects)
        IN /\ mw.blockResult.blocked <=> first # 0
           /\ first # 0 => mw.blockResult.reason = checks[first].reason
           /\ first = 0 => mw.blockResult = NotBlocked

\* C3 witness: a request on which both the scope check and the exact-version
\* check object, decided by the scope check
C3_Witness ==
    /\ mw.done /\ mw.req.kind = "tarball" /\ ~mw.blockResult.threw
    /\ VersionKey(mw.packageName, mw.version) \in securityRules.blockedVersions
    /\ mw.blockResult.reason = "Package scope not allowed"

\* C4: for a range rule with strategy fallback whose fallbackVersion is in
\* the input version map, every matching version listed in the delivered map
\* carries the fallback version's payload, keeps its own id in the version
\* field and has the fallback annotation set.
C4_FallbackPayloadSubstituted ==
    fm.pc = "returned" =>
        \A v \in DOMAIN fm.ret.versions :
            LET rule == _getVersionRangeRule(securityRules, fm.packageInfo.name, v)
            IN (rule # NoRule /\ rule.strategy = "fallback"
                    /\ rule.fallbackVersion \in DOMAIN fm.packageInfo.versions)
               => /\ fm.ret.versions[v].dist
                        = fm.packageInfo.versions[rule.fallbackVersion].dist
                  /\ fm.ret.versions[v].version = v
                  /\ fm.ret.versions[v]._fallback

\* C5: a version matched by a range rule with strategy fallback whose
\* fallbackVersion is absent from the package's version map is absent from
\* the delivered metadata.
C5_FallbackWithoutTargetBlocked ==
    fm.pc = "returned" =>
        \A v \in DOMAIN fm.packageInfo.versions :
            LET rule == _getVersionRangeRule(securityRules, fm.packageInfo.name, v)
            IN (rule # NoRule /\ rule.strategy = "fallback"
                    /\ rule.fallbackVersion \notin DOMAIN fm.packageInfo.versions)
               => v \notin DOMAIN fm.ret.versions

\* C6: when every dist-tag of the input points at one of its versions, every
\* dist-tag of the returned document points at one of the returned versions,
\* and a blocked document has no version and no dist-tag.
C6_DistTagsResolve ==
    (fm.pc = "returned" /\ TagsResolve(fm.packageInfo)) =>
        /\ TagsResolve(fm.ret)
        /\ fm.ret.security.blocked =>
              (fm.ret.versions = EmptyMap /\ fm.ret.distTags = EmptyMap)

\* C6 witness: age pruning removed a version and a tag, and a tag survived
C6_Witness ==
    /\ fm.pc = "returned" /\ TagsResolve(fm.packageInfo)
    /\ ~fm.ret.security.blocked
    /\ DOMAIN fm.ret.versions # DOMAIN fm.packageInfo.versions
    /\ DOMAIN fm.ret.distTags # DOMAIN fm.packageInfo.distTags
    /\ DOMAIN fm.ret.distTags # {}

\* C7 as stated: when filter_metadata removes the version a dist-tag points
\* at and a version remains, the tag is redirected to the highest remaining
\* version.
C7_TagRedirectedToHighest ==
    fm.pc = "returned" =>
        \A t \in DOMAIN fm.packageInfo.distTags :
            (/\ fm.packageInfo.distTags[t] \in DOMAIN fm.packageInfo.versions
             /\ fm.packageInfo.distTags[t] \notin DOMAIN fm.ret.versions
             /\ DOMAIN fm.ret.versions # {})
            => /\ t \in DOMAIN fm.ret.distTags
               /\ fm.ret.distTags[t] = Highest(DOMAIN fm.ret.versions)

\* C7 amended: when filter_metadata removes the version a dist-tag points at,
\* the tag is dropped, whether or not a version remains; a tag that points at
\* a surviving version is kept with its target, and no tag is added.
C7_TagOfRemovedVersionDropped ==
    fm.pc = "returned" =>
        /\ \A t \in DOMAIN fm.packageInfo.distTags :
              IF fm.packageInfo.distTags[t] \in DOMAIN fm.ret.versions
              THEN t \in DOMAIN fm.ret.distTags
                   /\ fm.ret.distTags[t] = fm.packageInfo.distTags[t]
              ELSE fm.packageInfo.distTags[t] \in DOMAIN fm.packageInfo.versions
                   => t \notin DOMAIN fm.ret.distTags
        /\ DOMAIN fm.ret.distTags \subseteq DOMAIN fm.packageInfo.distTags

\* C7 witness: the version 'latest' points at was pruned, another version
\* remains, and 'latest' is gone
C7_Witness ==
    /\ fm.pc = "returned"
    /\ "latest" \in DOMAIN fm.packageInfo.distTags
    /\ fm.packageInfo.distTags["latest"] \in DOMAIN fm.packageInfo.versions
    /\ fm.packageInfo.distTags["latest"] \notin DOMAIN fm.ret.versions
    /\ DOMAIN fm.ret.versions # {}
    /\ "latest" \notin DOMAIN fm.ret.distTags

\* C8: with onFilterError = fail-closed, an error raised during the
\* evaluation gives a returned document with no version, no dist-tag and a
\* security annotation with blocked = true that carries the error text.
C8_FailClosedBlocks ==
    (fm.pc = "returned" /\ fm.error # ""
        /\ config.errorHandling.onFilterError = "fail-closed")
    => /\ fm.ret.versions = EmptyMap
       /\ fm.ret.distTags = EmptyMap
       /\ fm.ret.security.blocked
       /\ fm.ret.security.detail = fm.error
       /\ fm.ret.name = fm.packageInfo.name

\* C8 witness: an error under fail-closed on a package that has versions
C8_Witness ==
    /\ fm.pc = "returned" /\ fm.error # ""
    /\ config.errorHandling.onFilterError = "fail-closed"
    /\ DOMAIN fm.packageInfo.versions # {}
    /\ fm.ret.security.blocked

\* C9: when onFilterError is not fail-closed (unset, or defaulted by the
\* constructor), an error raised at any point of the evaluation makes
\* filter_metadata return the input document as it was received.
C9_FailOpenReturnsInput ==
    (fm.pc = "returned" /\ fm.error # ""
        /\ config.errorHandling.onFilterError \in {"unset", "fail-open"})
    => fm.ret = fm.packageInfo

\* C9 witness: the error is raised by the author check after age pruning has
\* removed a version, and the input comes back with all its versions
C9_Witness ==
    /\ fm.pc = "returned" /\ fm.error = "Cannot read properties of null"
    /\ config.errorHandling.onFilterError \in {"unset", "fail-open"}
    /\ config.packageAge.enabled /\ config.packageAge.minVersionAgeDays # 0
    /\ RemovedVersions(PackageAgeCheckerInit(config.packageAge), fm.packageInfo) # {}
    /\ fm.ret = fm.packageInfo

\* C10: when a CVE lookup is rejected, the evaluation is blocked under
\* onCveCheckError = fail-closed, and the rejection blocks nothing under
\* fail-open.
C10_CveLookupFailurePolicy ==
    (fm.pc = "returned" /\ \E v \in DOMAIN fm.cve : fm.cve[v] = "rejected") =>
        IF config.errorHandling.onCveCheckError = "fail-closed"
        THEN fm.ret.security.blocked /\ fm.ret.versions = EmptyMap
        ELSE fm.ret.security.blocked =>
                 fm.ret = Deliver(config, fm.packageInfo,
                              AfterCveCheck(config, fm.packageInfo, fm.vulnerableVersions))

\* C11: whatever the license policy (allowed list empty or not), when the
\* license expression of the version 'latest' points at has a token that is
\* in the blocked list, filter_metadata returns a blocked document.
C11_BlockedLicenseBlocksPackage ==
    (/\ fm.pc = "returned" /\ fm.error = ""
     /\ config.licenses.present /\ HasLatest(fm.packageInfo)
     /\ LET versionData == fm.packageInfo.versions[fm.packageInfo.distTags["latest"]]
        IN /\ versionData.license.kind \in {"string", "object"}
           /\ \E b \in config.licenses.blocked :
                  Includes(licenseTokens(versionData.license.words), b))
    => (fm.ret.security.blocked /\ fm.ret.versions = EmptyMap)

\* C12: in whitelist mode, for a package that is approved by exact name or by
\* pattern and has a version constraint in whitelist.versions, a request that
\* names a version outside the constraint is blocked; a version inside the
\* constraint, or no version, passes the whitelist check.
C12_WhitelistVersionConstraint ==
    (/\ mw.done /\ mw.req.kind # "other" /\ config.mode = "whitelist"
     /\ mw.packageName \in DOMAIN whitelist.versions
     /\ (Includes(whitelist.packages, mw.packageName)
            \/ matchesPattern(whitelist, mw.packageName)))
    => IF mw.version # Undefined
          /\ ~satisfies(mw.version, whitelist.versions[mw.packageName])
       THEN mw.blockResult.blocked /\ mw.nextCalls = 0
       ELSE mw.blockResult.reason \notin
                {"Version does not satisfy whitelist constraint",
                 "Package is not in whitelist"}

\* C13: a pattern of blockedPatterns or whitelist.patterns that does not
\* compile never matches: the middleware handles every request as it would
\* with the invalid patterns removed from the configuration, and no error is
\* forwarded because of them.
C13_InvalidPatternNeverMatches ==
    mw.done =>
        LET IsValid(p) == p.valid
            rules == [securityRules EXCEPT !.blockedPatterns = SelectSeq(@, IsValid)]
            wl == [whitelist EXCEPT !.patterns = SelectSeq(@, IsValid)]
        IN /\ mw = MiddlewareOutcome(config, rules, wl, mw.req)
           /\ ~mw.nextError

\* C14: the range rule applied to a request for (package, version) is the
\* first rule of the loaded list, in configuration order, whose package is
\* the requested name and whose range the version satisfies; when the
\* earlier checks do not object, the request is blocked if and only if that
\* rule has strategy block, and a version no rule of the package covers is
\* not blocked.
C14_FirstMatchingRangeRuleDecides ==
    (/\ mw.done /\ mw.req.kind = "tarball" /\ mw.version # Undefined
     /\ ~mw.blockResult.threw
     /\ mw.blockResult.reason \notin
            {"Version does not satisfy whitelist constraint",
             "Package is not in whitelist", "Package name matches blocked pattern",
             "Package scope not allowed", "Exact version match in blocklist"})
    => LET list == securityRules.versionRangeRules
           matching == {i \in 1..Len(list) :
                           /\ list[i].package = mw.packageName
                           /\ mw.version \in list[i].range.sat}
           first == CHOOSE i \in matching : \A j \in matching : i <= j
       IN IF matching = {}
          THEN ~mw.blockResult.blocked /\ mw.nextCalls = 1
          ELSE /\ mw.blockResult.blocked <=> list[first].strategy = "block"
               /\ mw.blockResult.blocked =>
                     (mw.blockResult.detail = list[first].range.src /\ mw.status = 403)
               /\ ~mw.blockResult.blocked => mw.nextCalls = 1

\* C14 witness: two rules cover the requested version, a fallback rule ahead
\* of a block rule, and the request is not blocked
C14_Witness ==
    /\ mw.done /\ mw.req.kind = "tarball" /\ mw.version # Undefined
    /\ Len(securityRules.versionRangeRules) >= 2
    /\ securityRules.versionRangeRules[1].package = mw.packageName
    /\ mw.version \in securityRules.versionRangeRules[1].range.sat
    /\ securityRules.versionRangeRules[1].strategy = "fallback"
    /\ securityRules.versionRangeRules[2].package = mw.packageName
    /\ mw.version \in securityRules.versionRangeRules[2].range.sat
    /\ securityRules.versionRangeRules[2].strategy = "block"
    /\ ~mw.blockResult.blocked /\ mw.nextCalls = 1

\* C15: the loaded rule list is exactly the list of valid entries of the
\* configured versionRangeRules, in configuration order: an entry without
\* package, range or strategy, a fallback entry without fallbackVersion and
\* an entry whose range is not a valid semver range are dropped; every loaded
\* rule with strategy fallback has a fallbackVersion.
C15_LoadedRulesAreValidEntries ==
    LET raw == config.versionRangeRules
        loaded == securityRules.versionRangeRules
        Valid(r) == /\ r.package # <<>> /\ r.range.src # "" /\ r.strategy # ""
                    /\ r.strategy = "fallback" => r.fallbackVersion # <<>>
                    /\ r.range.valid
        idx == {i \in 1..Len(raw) : Valid(raw[i])}
        Nth(k) == CHOOSE i \in idx : Cardinality({j \in idx : j <= i}) = k
    IN /\ Len(loaded) = Cardinality(idx)
       /\ \A k \in 1..Len(loaded) : loaded[k] = raw[Nth(k)]
       /\ \A k \in 1..Len(loaded) :
              loaded[k].strategy = "fallback" => loaded[k].fallbackVersion # <<>>

\* C15 witness: an invalid entry ahead of a valid one; the loaded list holds
\* the valid one alone
C15_Witness ==
    /\ Len(config.versionRangeRules) = 2
    /\ config.versionRangeRules[1] \in
           {RuleNoPackage, RuleNoRange, RuleNoStrategy, RuleBadRange, RuleNoFallback}
    /\ securityRules.versionRangeRules = <<config.versionRangeRules[2]>>
    /\ mw.done

\* C16: when the whitelist and pattern checks do not object, a scoped package
\* is blocked by the scope check iff its scope is in blockedScopes, or
\* allowedScopes is non-empty and does not hold its scope (a scope in both
\* lists is blocked); an unscoped package is blocked by the scope check iff
\* allowedScopes is non-empty.
C16_ScopePolicy ==
    (/\ mw.done /\ mw.req.kind # "other" /\ ~mw.blockResult.threw
     /\ mw.blockResult.reason \notin
            {"Version does not satisfy whitelist constraint",
             "Package is not in whitelist", "Package name matches blocked pattern"})
    => LET name == mw.packageName
           scope == SplitSlashHead(name)
           expected ==
               IF StartsWithAt(name)
               THEN \/ scope \in securityRules.blockedScopes
                    \/ /\ securityRules.allowedScopes # {}
                       /\ scope \notin securityRules.allowedScopes
               ELSE securityRules.allowedScopes # {}
       IN /\ (mw.blockResult.reason = "Package scope not allowed") <=> expected
          /\ expected => (mw.blockResult.blocked /\ mw.nextCalls = 0 /\ mw.sends = 1)

\* C16 witness: a scoped package whose scope is in both lists is blocked by
\* the scope check
C16_Witness ==
    /\ mw.done /\ StartsWithAt(mw.packageName)
    /\ SplitSlashHead(mw.packageName) \in securityRules.blockedScopes
    /\ SplitSlashHead(mw.packageName) \in securityRules.allowedScopes
    /\ mw.blockResult.reason = "Package scope not allowed"
    /\ mw.nextCalls = 0

\* C17 as stated: checkLicense on a present license expression is decided by
\* the tokens of the expression alone: not allowed if a token is in the
\* blocked list; otherwise, with a non-empty allowed list, allowed iff a
\* token is in the allowed list; otherwise allowed.
C17_TokensDecide ==
    (/\ licenseCall.called
     /\ licenseCall.versionData.license.kind \in {"string", "object"}
     /\ licenseCall.versionData.license.words \notin {<<>>, <<"UNLICENSED">>})
    => LET tokens == Range(licenseTokens(licenseCall.versionData.license.words))
       IN /\ ~licenseCall.result.threw
          /\ licenseCall.result.allowed <=>
                 IF tokens \cap licenseChecker.blocked # {} THEN FALSE
                 ELSE IF licenseChecker.allowed # {}
                      THEN tokens \cap licenseChecker.allowed # {}
                      ELSE TRUE

\* C17 amended: checkLicense on a present license expression compares the
\* whole expression and each of its tokens (split on the OR/AND keywords,
\* case-insensitive) with the lists: not allowed if the expression or a token
\* is in the blocked list, which takes precedence; otherwise, with a
\* non-empty allowed list, allowed iff the expression or a token is in the
\* allowed list; otherwise allowed.
C17_ExpressionOrTokensDecide ==
    (/\ licenseCall.called
     /\ licenseCall.versionData.license.kind \in {"string", "object"}
     /\ licenseCall.versionData.license.words \notin {<<>>, <<"UNLICENSED">>})
    => LET words == licenseCall.versionData.license.words
           units == Range(licenseTokens(words)) \cup {words}
       IN /\ ~licenseCall.result.threw
          /\ licenseCall.result.allowed <=>
                 IF units \cap licenseChecker.blocked # {} THEN FALSE
                 ELSE IF licenseChecker.allowed # {}
                      THEN units \cap licenseChecker.allowed # {}
                      ELSE TRUE

\* C17 witness: a compound expression with one token in the allowed list and
\* another in the blocked list is refused
C17_Witness ==
    /\ licenseCall.called
    /\ Len(licenseTokens(licenseCall.versionData.license.words)) = 2
    /\ \E i, j \in 1..2 :
          /\ licenseTokens(licenseCall.versionData.license.words)[i] \in licenseChecker.allowed
          /\ licenseTokens(licenseCall.versionData.license.words)[j] \in licenseChecker.blocked
          /\ i # j
    /\ ~licenseCall.result.allowed
    /\ licenseCall.result.reason = "License is in blocked list"

\* C19: requireLicense defaults to false: under a configured license policy
\* that does not set requireLicense, a version with no license (absent, empty
\* string or UNLICENSED) is allowed by checkLicense.
C19_RequireLicenseDefaultsFalse ==
    (/\ licenseCall.called
     /\ config.licenses.present /\ config.licenses.requireLicense = "unset"
     /\ \/ licenseCall.versionData.license.kind = "absent"
        \/ /\ licenseCall.versionData.license.kind = "string"
           /\ licenseCall.versionData.license.words \in {<<>>, <<"UNLICENSED">>})
    => licenseCall.result.allowed

\* C18: when filter_metadata returns without an error and without blocking
\* the package, with packageAge enabled, minVersionAgeDays set and warnOnly
\* off, the returned versions are the input versions minus exactly those that
\* have a recorded publish time and fewer than minVersionAgeDays whole days
\* of age; a version without a recorded time, or whose age equals the
\* minimum, is kept; with warnOnly on or minVersionAgeDays unset the returned
\* versions are the input versions.
C18_VersionAgePruning ==
    (/\ fm.pc = "returned" /\ fm.error = "" /\ ~fm.ret.security.blocked
     /\ config.packageAge.enabled)
    => LET min == config.packageAge.minVersionAgeDays
           input == fm.packageInfo
           tooNew == {v \in DOMAIN input.versions :
                         /\ v \in DOMAIN input.time
                         /\ Now - input.time[v] < min * DayMs}
       IN IF min # 0 /\ ~config.packageAge.warnOnly
          THEN /\ DOMAIN fm.ret.versions = DOMAIN input.versions \ tooNew
               /\ \A v \in DOMAIN fm.ret.versions : fm.ret.versions[v] = input.versions[v]
          ELSE fm.ret.versions = input.versions

\* C18 witness: one version is removed as too new, and a version whose age
\* equals the minimum is kept
C18_Witness ==
    /\ fm.pc = "returned" /\ fm.error = "" /\ ~fm.ret.security.blocked
    /\ config.packageAge.enabled /\ ~config.packageAge.warnOnly
    /\ config.packageAge.minVersionAgeDays # 0
    /\ DOMAIN fm.ret.versions # DOMAIN fm.packageInfo.versions
    /\ \E v \in DOMAIN fm.ret.versions :
          /\ v \in DOMAIN fm.packageInfo.time
          /\ calculateAgeDays(fm.packageInfo.time[v]) = config.packageAge.minVersionAgeDays

\* C20: for every request the middleware handles, exactly one of next() and
\* a response happens, once: next() for an admitted request, a non-package
\* request or a forwarded error; 403 for a blocked tarball request and 200
\* with a synthesized blocked document for a blocked metadata request; a
\* request that _checkPackageBlock reports blocked never reaches next().
C20_ExactlyOneOutcome ==
    mw.done =>
        /\ mw.nextCalls + mw.sends = 1
        /\ mw.sends = 1 =>
              /\ mw.blockResult.blocked
              /\ IF mw.req.kind = "tarball"
                 THEN mw.status = 403 /\ mw.body.kind = "error"
                 ELSE mw.status = 200 /\ mw.body.kind = "blockedDocument"
        /\ mw.blockResult.blocked => (mw.nextCalls = 0 /\ mw.sends = 1)

\* C21: the packages list behaves as a set under addPackage/removePackage:
\* for a package no whitelist pattern matches, isWhitelisted(p) is allowed
\* iff the last call naming p was addPackage, or no call named p and p was in
\* the initial list; getSummary().totalPackages is the number of distinct
\* whitelisted names.
C21_PackagesListIsSet ==
    /\ \A p \in Names :
          ~matchesPattern(whitelist, p) =>
              (isWhitelisted(whitelist, p, Undefined).allowed
                  <=> \/ wlTrace.last[p] = "addPackage"
                      \/ wlTrace.last[p] = "none" /\ Includes(wlTrace.initial, p))
    /\ getSummary(whitelist).totalPackages = Cardinality(Range(whitelist.packages))

\* C22: filter_metadata is idempotent on its own output: under the same
\* configuration, clock and CVE lookup results, filter_metadata applied to
\* the document it returned gives the same versions map and the same
\* dist-tags map (the document an evaluation returns being the one
\* filter_metadata computes from the input and the lookup results).
C22_Idempotent ==
    fm.pc = "returned" =>
        LET first == filter_metadata(config, securityRules, whitelist,
                                     fm.packageInfo, fm.cve)
            again == filter_metadata(config, securityRules, whitelist, fm.ret, fm.cve)
        IN /\ fm.ret = first
           /\ again.versions = fm.ret.versions
           /\ again.distTags = fm.ret.distTags

\* C22 witness: the first application pruned a version and the tag 'latest'
\* with it, under a license policy, and the second application changes
\* nothing
C22_Witness ==
    /\ fm.pc = "returned" /\ ~fm.ret.security.blocked
    /\ config.licenses.present /\ config.licenses.allowed # {}
    /\ "latest" \in DOMAIN fm.packageInfo.distTags
    /\ "latest" \notin DOMAIN fm.ret.distTags
    /\ DOMAIN fm.ret.versions # {}
    /\ DOMAIN fm.ret.versions # DOMAIN fm.packageInfo.versions
    /\ filter_metadata(config, securityRules, whitelist, fm.ret, fm.cve).versions
           = fm.ret.versions

\* C23: every version id in the versions map filter_metadata returns is a
\* version id of the input document and carries the input's record for that
\* id unchanged.
C23_VersionsFrame ==
    fm.pc = "returned" =>
        \A v \in DOMAIN fm.ret.versions :
            /\ v \in DOMAIN fm.packageInfo.versions
            /\ fm.ret.versions[v] = fm.packageInfo.versions[v]

\* C23 witness: a version was pruned as too new and another one survives with
\* the record the input had for it
C23_Witness ==
    /\ fm.pc = "returned" /\ ~fm.ret.security.blocked
    /\ config.packageAge.enabled /\ config.packageAge.minVersionAgeDays # 0
    /\ DOMAIN fm.ret.versions # {}
    /\ DOMAIN fm.ret.versions # DOMAIN fm.packageInfo.versions
    /\ \A v \in DOMAIN fm.ret.versions : fm.ret.versions[v] = fm.packageInfo.versions[v]

\* C24: within one filter_metadata invocation at most 10 CVE lookups are in
\* flight at any time, a lookup of a later batch is issued only after every
\* lookup of the earlier batches has settled (fulfilled or rejected), no
\* version is looked up twice, and when filter_metadata returns after the
\* CVE step every version has been looked up exactly once and has settled,
\* rejected lookups included.
C24_CveBatches ==
    LET versions == ObjectKeys(fm.packageInfo.versions)
        InFlight == {v \in DOMAIN fm.cve : fm.cve[v] = "pending"}
        Settled(v) == fm.cve[v] \in {"clean", "vulnerable", "rejected"}
        BatchOf(k) == (k - 1) \div 10
    IN /\ Cardinality(InFlight) <= 10
       /\ \A v \in DOMAIN fm.issued : fm.issued[v] <= 1
       /\ \A v \in DOMAIN fm.issued : fm.issued[v] = 0 <=> fm.cve[v] = "unsent"
       /\ fm.cve # EmptyMap =>
             \A j, k \in 1..Len(versions) :
                 (BatchOf(j) < BatchOf(k) /\ fm.issued[versions[k]] > 0)
                     => Settled(versions[j])
       /\ (fm.pc = "returned" /\ fm.cve # EmptyMap) =>
             \A v \in DOMAIN fm.packageInfo.versions :
                 fm.issued[v] = 1 /\ Settled(v)

\* C24 witness: a document of more than 10 versions; a lookup of the first
\* batch was rejected, the lookup of the second batch reported a
\* vulnerability, and the package is blocked for it
C24_Witness ==
    LET versions == ObjectKeys(fm.packageInfo.versions)
    IN /\ fm.pc = "returned"
       /\ Len(versions) > 10
       /\ fm.cve[versions[1]] = "rejected"
       /\ fm.cve[versions[Len(versions)]] = "vulnerable"
       /\ fm.vulnerableVersions = <<versions[Len(versions)]>>
       /\ fm.ret.security.blocked

\* C25: an evaluation run after a mutation of the whitelist and before the
\* next one sees the whole mutation: after addPackage(p, range) no
\* isWhitelisted(p, version) allows a version outside the range, and after
\* removePackage(p) no isWhitelisted(p, version) allows p through its list
\* entry (p is allowed only if a pattern matches it).
C25_EvaluationsSeeWholeMutations ==
    LET e == wlTrace.eval
        c == wlTrace.call
    IN (e.at = wlTrace.n /\ e.package = c.package /\ e.result.allowed) =>
           /\ (c.op = "addPackage" /\ RangeGiven(c.range) /\ e.version # Undefined)
                 => satisfies(e.version, c.range)
           /\ c.op = "removePackage" => matchesPattern(whitelist, e.package)

\* C26: when the fast-path check blocks the package, filter_metadata returns
\* at once: no CVE lookup is issued, no deep check decides anything, and the
\* document returned is the blocked document carrying the fast-path reason.
C26_FastPathBlockSkipsDeepChecks ==
    LET blockResult == _checkPackageBlock(config, securityRules, whitelist,
                                          fm.packageInfo.name, Undefined)
    IN (fm.pc # "idle" /\ ~blockResult.threw /\ blockResult.blocked) =>
           /\ fm.pc = "returned"
           /\ fm.cve = EmptyMap
           /\ fm.ret.security.blocked
           /\ fm.ret.security.reason = blockResult.reason
           /\ fm.ret.versions = EmptyMap /\ fm.ret.distTags = EmptyMap

\* C27: every document filter_metadata returns is either blocked (empty
\* versions and dist-tags with security.blocked = true and a reason) or
\* delivered; a document returned with no versions for an input that had at
\* least one is a blocked one.
C27_EmptyVersionsCarryBlock ==
    fm.pc = "returned" =>
        /\ fm.ret.security.blocked =>
              /\ fm.ret.versions = EmptyMap /\ fm.ret.distTags = EmptyMap
              /\ fm.ret.security.reason # ""
        /\ (DOMAIN fm.packageInfo.versions # {} /\ DOMAIN fm.ret.versions = {})
              => fm.ret.security.blocked

\* C28: in filter_metadata the author check looks only at the version the
\* 'latest' dist-tag points to once the versions that are too new have been
\* pruned. When the earlier steps let the package through and there is no
\* such version (no 'latest' tag, a tag to an absent version, or a tag to a
\* pruned version) the versions left are delivered whatever their authors
\* are; when there is one, the package is blocked exactly when checkAuthor
\* refuses that version and the filter is not in warn-only mode.
C28_AuthorCheckOnLatestAfterPruning ==
    LET pkg == fm.packageInfo
        ac == PackageAgeCheckerInit(config.packageAge)
        blockResult == _checkPackageBlock(config, securityRules, whitelist,
                                          pkg.name, Undefined)
        ageResult == checkPackageAge(ac, pkg)
        TooNew(v) == /\ config.packageAge.enabled
                     /\ config.packageAge.minVersionAgeDays # 0
                     /\ LET r == checkVersionAge(ac, pkg, v)
                        IN ~r.allowed /\ ~r.warnOnly
        left == {v \in DOMAIN pkg.versions : ~TooNew(v)}
        LatestLeft == IF HasLatest(pkg) THEN ~TooNew(pkg.distTags["latest"]) ELSE FALSE
        authorResult == checkAuthor(config.authorFilter, pkg.versions[pkg.distTags["latest"]])
    IN (/\ fm.pc = "returned" /\ fm.error = ""
        /\ config.authorFilter.enabled
        /\ ~config.cveCheck.enabled /\ ~config.licenses.present
        /\ ~blockResult.blocked
        /\ ~config.packageAge.enabled \/ ageResult.allowed \/ ageResult.warnOnly)
       => IF LatestLeft
          THEN fm.ret.security.blocked
                  <=> (~authorResult.allowed /\ ~config.authorFilter.warnOnly)
          ELSE /\ ~fm.ret.security.blocked
               /\ DOMAIN fm.ret.versions = left

\* C28 witness: 'latest' pointed to a version pruned as too new; a version by
\* a blocked author is left and is delivered
C28_Witness ==
    /\ fm.pc = "returned" /\ fm.error = ""
    /\ config.authorFilter.enabled /\ ~config.authorFilter.warnOnly
    /\ HasLatest(fm.packageInfo)
    /\ fm.packageInfo.distTags["latest"] \notin DOMAIN fm.ret.versions
    /\ ~fm.ret.security.blocked
    /\ \E v \in DOMAIN fm.ret.versions :
          ~checkAuthor(config.authorFilter, fm.ret.versions[v]).allowed

\* C29: with metrics enabled, once cleanup has run every recorded event has
\* reached the configured sink exactly once and in record order and the
\* buffer is empty; between calls the buffer holds fewer than 100 events;
\* with metrics disabled nothing is buffered or emitted.
C29_EventsDeliveredOnce ==
    LET sink == IF metrics.output = "stdout" THEN metrics.stdout ELSE metrics.file
    IN /\ Len(metrics.metricsBuffer) < 100
       /\ (metrics.enabled /\ metrics.ended) =>
             /\ sink = [n \in 1..metrics.recorded |-> n]
             /\ metrics.metricsBuffer = <<>>
       /\ ~metrics.enabled =>
             /\ metrics.metricsBuffer = <<>>
             /\ metrics.stdout = <<>> /\ metrics.file = <<>>

\* C30: an LRUCache built with maxSize >= 1 never holds more than maxSize
\* entries, and a set of a new key on a full cache removes exactly one key,
\* the least recently used one (get and set use a key, has does not).
C30_LruBound ==
    LET before == cache.call.before
        now == Keys(cache.cache)
        key == cache.call.key
    IN /\ Len(cache.cache) <= cache.maxSize
       /\ (/\ cache.call.op = "set" /\ ~Includes(before, key)
           /\ Len(before) >= cache.maxSize)
             => now = (Range(before) \ {before[1]}) \cup {key}

====
